---- MODULE Spec2Model ----
(***************************************************************************)
(* A model of the GenAI test-automation framework: the JSON recovery       *)
(* parser and the workbook artifact of ExcelHandler                        *)
(* (src/src/excel_handler.py), the provider fallback of LLMClient          *)
(* (src/src/llm_client.py) with its Ollama and Gemini adapters, the folder *)
(* loop and script generation of GenAITestFramework (src/main.py), and the *)
(* generators and the step resolver of TestGenerator                       *)
(* (src/src/testcase_generator.py).                                        *)
(*                                                                         *)
(* Text is a sequence of lexical tokens.  A punctuation character is a     *)
(* token of its own; a run of letters or digits (a name, a number) is one  *)
(* token; the three-backtick markdown fence is one token.  The code looks  *)
(* at text only through braces, quotes, whitespace, the fence and the two  *)
(* quoted key names, none of which occurs inside a run.                     *)
(***************************************************************************)
EXTENDS Integers, Sequences, FiniteSets, TLC

LB == "{"
RB == "}"
LS == "["
RS == "]"
COLON == ":"
COMMA == ","
QUOTE == "Q"
SP == " "
NL == "nl"
FENCE == "fence"

Whitespace == {SP, NL}
Digits == {"1", "2", "3", "4"}

(***************************************************************************)
(* str.strip / str.rstrip / str.lstrip                                     *)
(***************************************************************************)
RECURSIVE LStrip(_)
LStrip(t) ==
    IF t # <<>> /\ Head(t) \in Whitespace THEN LStrip(Tail(t)) ELSE t

RECURSIVE RStrip(_)
RStrip(t) ==
    IF t # <<>> /\ t[Len(t)] \in Whitespace
    THEN RStrip(SubSeq(t, 1, Len(t) - 1))
    ELSE t

Strip(t) == RStrip(LStrip(t))

\* Positions of the fence in t.
FencePositions(t) == {i \in 1..Len(t) : t[i] = FENCE}

Min(S) == CHOOSE x \in S : \A y \in S : x <= y
Max(S) == CHOOSE x \in S : \A y \in S : x >= y

\* text.split(fence, 1)[1]: what follows the first fence.
AfterFirstFence(t) == SubSeq(t, Min(FencePositions(t)) + 1, Len(t))

\* text.rsplit(fence, 1)[0]: what precedes the last fence, the whole text
\* when it holds no fence.
BeforeLastFence(t) ==
    IF FencePositions(t) = {} THEN t
    ELSE SubSeq(t, 1, Max(FencePositions(t)) - 1)

\* ExcelHandler._strip_markdown
StripMarkdown(text) ==
    LET t == Strip(text) IN
    IF t # <<>> /\ Head(t) = FENCE
    THEN Strip(BeforeLastFence(AfterFirstFence(t)))
    ELSE Strip(t)

(***************************************************************************)
(* json.loads on a token sequence: a recursive-descent parse of objects,   *)
(* arrays, strings and numbers.  A parse operator returns the index after  *)
(* what it parsed, 0 when the text is not JSON there (JSONDecodeError).     *)
(***************************************************************************)
RECURSIVE SkipWs(_, _)
SkipWs(t, i) ==
    IF i <= Len(t) /\ t[i] \in Whitespace THEN SkipWs(t, i + 1) ELSE i

\* A string: an opening quote, then tokens up to the next quote; a raw
\* newline inside a string is a control character the decoder rejects.
RECURSIVE StringEnd(_, _)
StringEnd(t, j) ==
    IF j > Len(t) THEN 0
    ELSE IF t[j] = QUOTE THEN j + 1
    ELSE IF t[j] = NL THEN 0
    ELSE StringEnd(t, j + 1)

ParseString(t, i) ==
    IF i <= Len(t) /\ t[i] = QUOTE THEN StringEnd(t, i + 1) ELSE 0

RECURSIVE ParseValue(_, _)
RECURSIVE ParseElements(_, _)
RECURSIVE ParseMembers(_, _, _)

\* The members of an object from index i (the first key): the index after
\* the closing brace and the members read, <<key tokens, value tokens>>.
ParseMembers(t, i, acc) ==
    LET k == ParseString(t, i)
        c == SkipWs(t, k)
        v == SkipWs(t, c + 1)
        e == ParseValue(t, v)
        n == SkipWs(t, e)
        got == Append(acc, <<SubSeq(t, i + 1, k - 2), SubSeq(t, v, e - 1)>>)
    IN  IF k = 0 THEN [end |-> 0, members |-> <<>>]
        ELSE IF c > Len(t) \/ t[c] # COLON THEN [end |-> 0, members |-> <<>>]
        ELSE IF e = 0 THEN [end |-> 0, members |-> <<>>]
        ELSE IF n > Len(t) THEN [end |-> 0, members |-> <<>>]
        ELSE IF t[n] = RB THEN [end |-> n + 1, members |-> got]
        ELSE IF t[n] = COMMA THEN ParseMembers(t, SkipWs(t, n + 1), got)
        ELSE [end |-> 0, members |-> <<>>]

\* An object at index i, where t[i] is the opening brace.
ParseObject(t, i) ==
    LET f == SkipWs(t, i + 1) IN
    IF f <= Len(t) /\ t[f] = RB
    THEN [end |-> f + 1, members |-> <<>>]
    ELSE ParseMembers(t, f, <<>>)

\* The elements of an array from index i (the first element).
ParseElements(t, i) ==
    LET e == ParseValue(t, i)
        n == SkipWs(t, e)
    IN  IF e = 0 THEN 0
        ELSE IF n > Len(t) THEN 0
        ELSE IF t[n] = RS THEN n + 1
        ELSE IF t[n] = COMMA THEN ParseElements(t, SkipWs(t, n + 1))
        ELSE 0

ParseValue(t, i) ==
    IF i < 1 \/ i > Len(t) THEN 0
    ELSE IF t[i] = LB THEN ParseObject(t, i).end
    ELSE IF t[i] = LS THEN
        LET f == SkipWs(t, i + 1) IN
        IF f <= Len(t) /\ t[f] = RS THEN f + 1 ELSE ParseElements(t, f)
    ELSE IF t[i] = QUOTE THEN ParseString(t, i)
    ELSE IF t[i] \in Digits THEN i + 1
    ELSE 0

\* json.loads(buffer) succeeds: one value, then nothing but whitespace.
\* The buffers the scan builds start with an opening brace.
JsonOk(buffer) ==
    /\ buffer # <<>>
    /\ Head(buffer) = LB
    /\ LET r == ParseObject(buffer, 1) IN
       r.end # 0 /\ SkipWs(buffer, r.end) = Len(buffer) + 1

\* json.loads(buffer), a dict: each key maps to the value of its last member.
Loads(buffer) ==
    LET m == ParseObject(buffer, 1).members
        keys == {m[j][1] : j \in 1..Len(m)}
        last(k) == Max({j \in 1..Len(m) : m[j][1] = k})
    IN  [k \in keys |-> m[last(k)][2]]

(***************************************************************************)
(* ExcelHandler._extract_complete_objects: the brace-depth scan.  The loop *)
(* runs once per token; its variables after a token are given in closed    *)
(* form from the last place the buffer was reset (depth 0, buffer empty),  *)
(* so that the scan recurses once per closed buffer, not once per token.    *)
(***************************************************************************)
Opens(text, i, j) == Cardinality({k \in i..j : text[k] = LB})
Closes(text, i, j) == Cardinality({k \in i..j : text[k] = RB})

\* depth after "if ch == '{': depth += 1" ran for token k, the scan having
\* been at depth 0 before token i.
DepthAtAppend(text, i, k) == Opens(text, i, k) - Closes(text, i, k - 1)

\* depth after the whole loop body ran for token k: a closing brace
\* decrements it whatever its value.
DepthAfter(text, i, k) == Opens(text, i, k) - Closes(text, i, k)

\* The tokens where "if ch == '}': ... if depth == 0" holds first.
ZeroHits(text, i) ==
    {j \in i..Len(text) : text[j] = RB /\ DepthAfter(text, i, j) = 0}

\* buffer when the depth returns to zero at token j: the tokens of i..j
\* appended under "if depth > 0".  They are consecutive: the depth, once
\* positive, stays positive up to j.
BufferAt(text, i, j) ==
    SubSeq(text, Min({k \in i..j : DepthAtAppend(text, i, k) > 0}), j)

\* The result list after the buffer closed at depth zero: the parsed object
\* is appended, a buffer that does not parse is skipped.
AppendParsed(objects, buffer) ==
    IF JsonOk(buffer) THEN Append(objects, Loads(buffer)) ELSE objects

RECURSIVE ScanObjects(_, _, _)
ScanObjects(text, i, objects) ==
    IF ZeroHits(text, i) = {} THEN objects
    ELSE LET j == Min(ZeroHits(text, i)) IN
         ScanObjects(text, j + 1, AppendParsed(objects, BufferAt(text, i, j)))

ExtractCompleteObjects(array_text) == ScanObjects(array_text, 1, <<>>)

(***************************************************************************)
(* ExcelHandler._extract_array: the key, a colon and an opening bracket    *)
(* (whitespace allowed around the colon), found by re.search at the        *)
(* leftmost place; the array body is all the text after the bracket.        *)
(***************************************************************************)
\* The index after the opening bracket when the pattern matches at i, else 0.
KeyMatchAt(text, key, i) ==
    IF i + 2 <= Len(text) /\ text[i] = QUOTE /\ text[i + 1] = key
       /\ text[i + 2] = QUOTE
    THEN LET c == SkipWs(text, i + 3)
             b == SkipWs(text, c + 1)
         IN  IF c <= Len(text) /\ text[c] = COLON /\ b <= Len(text)
                /\ text[b] = LS
             THEN b + 1 ELSE 0
    ELSE 0

\* match.group(1) of the leftmost match.
ArrayBody(text, key) ==
    LET at == {i \in 1..Len(text) : KeyMatchAt(text, key, i) # 0}
    IN  SubSeq(text, KeyMatchAt(text, key, Min(at)), Len(text))

ExtractArray(text, key) ==
    IF \A i \in 1..Len(text) : KeyMatchAt(text, key, i) = 0
    THEN <<>>
    ELSE ExtractCompleteObjects(ArrayBody(text, key))

\* The merge without the left strip of the continuation.
MergeNoLeftStrip(original, continuation) ==
    RStrip(original) \o <<NL>> \o continuation

\* ExcelHandler._merge_json_outputs
MergeJsonOutputs(original, continuation) ==
    RStrip(original) \o <<NL>> \o LStrip(continuation)

(***************************************************************************)
(* ExcelHandler._filter_valid and the required fields of each category.    *)
(***************************************************************************)
REQUIRED_TEST_FIELDS == <<"test_id", "description", "steps", "expected_result">>
REQUIRED_API_FIELDS == <<"test_id", "method", "url", "expected_status">>

\* any() in the place of all().
HasAnyRequired(item, required_fields) ==
    \E j \in 1..Len(required_fields) : <<required_fields[j]>> \in DOMAIN item

\* all(field in item for field in required_fields)
HasRequired(item, required_fields) ==
    \A j \in 1..Len(required_fields) : <<required_fields[j]>> \in DOMAIN item

RECURSIVE FilterValid(_, _)
FilterValid(items, required_fields) ==
    IF items = <<>> THEN <<>>
    ELSE IF HasRequired(Head(items), required_fields)
         THEN <<Head(items)>> \o FilterValid(Tail(items), required_fields)
         ELSE FilterValid(Tail(items), required_fields)

(***************************************************************************)
(* The tabular artifact.  A parsed JSON value is the token sequence of its *)
(* text: a number is one digit token, a string starts with the quote, a    *)
(* list with the bracket, a dict with the brace.  A worksheet is a header  *)
(* (the set of column names) and the rows of cells under it; a cell holds  *)
(* a number, a string or nothing.                                          *)
(***************************************************************************)
SQ == "'"
\* The missing value of a data frame, and the empty cell of a worksheet.
NaN == <<"NaN">>
EmptyString == <<QUOTE, QUOTE>>

IsString(v) == v # <<>> /\ Head(v) = QUOTE
IsNumber(v) == Len(v) = 1 /\ v[1] \in Digits
Content(v) == SubSeq(v, 2, Len(v) - 1)

\* str(val) of a list or dict that json.loads built: strings are shown in
\* single quotes, items are separated by ", " and keys from values by ": ".
RECURSIVE PyRepr(_, _)
PyRepr(v, in_string) ==
    IF v = <<>> THEN <<>>
    ELSE IF Head(v) = QUOTE THEN <<SQ>> \o PyRepr(Tail(v), ~in_string)
    ELSE IF in_string THEN <<Head(v)>> \o PyRepr(Tail(v), TRUE)
    ELSE IF Head(v) \in Whitespace THEN PyRepr(Tail(v), FALSE)
    ELSE IF Head(v) \in {COMMA, COLON}
         THEN <<Head(v), SP>> \o PyRepr(Tail(v), FALSE)
    ELSE <<Head(v)>> \o PyRepr(Tail(v), FALSE)

\* DataFrame.to_excel on one value: a number stays a number, a missing value
\* and the empty string leave the cell empty, a string stays a string, and
\* any other value (a list, a dict) is written as the string str(val).
ToCell(val) ==
    IF val = NaN \/ val = EmptyString THEN NaN
    ELSE IF IsNumber(val) \/ IsString(val) THEN val
    ELSE <<QUOTE>> \o PyRepr(val, FALSE) \o <<QUOTE>>

\* The strings pd.read_excel takes for a missing value.
NaStrings == {<<"NA">>, <<"null">>, <<"NULL">>, <<"nan">>, <<"NaN">>, <<"None">>}

\* pd.read_excel followed by fillna(""): an empty cell, and a string cell
\* holding one of the missing-value strings, read as the empty string.
FromCell(cell) ==
    IF cell = NaN THEN EmptyString
    ELSE IF IsString(cell) /\ Content(cell) \in NaStrings THEN EmptyString
    ELSE cell

\* The columns of pd.DataFrame(rows): every key of every row.
FrameColumns(rows) == UNION {DOMAIN rows[i] : i \in 1..Len(rows)}

Header(columns) == {<<columns[j]>> : j \in 1..Len(columns)}

\* An empty list written as a worksheet without a header row.
WriteSheetNoHeader(rows, columns) ==
    [columns |-> FrameColumns(rows),
     cells |-> [i \in 1..Len(rows) |->
                   [c \in FrameColumns(rows) |->
                       IF c \in DOMAIN rows[i] THEN ToCell(rows[i][c]) ELSE NaN]]]

\* ExcelHandler._write_sheet: the worksheet of pd.DataFrame(rows), a key
\* absent from a row leaving its cell empty; the worksheet of an empty list
\* has the header of the given columns and no row.
WriteSheet(rows, columns) ==
    IF rows # <<>>
    THEN [columns |-> FrameColumns(rows),
          cells |-> [i \in 1..Len(rows) |->
                        [c \in FrameColumns(rows) |->
                            IF c \in DOMAIN rows[i] THEN ToCell(rows[i][c])
                            ELSE NaN]]]
    ELSE [columns |-> Header(columns), cells |-> <<>>]

\* The workbook json_to_excel writes: one worksheet per category.
Workbook(tests, apis) ==
    [test_cases |-> WriteSheet(tests, REQUIRED_TEST_FIELDS),
     api_tests |-> WriteSheet(apis, REQUIRED_API_FIELDS)]

\* DataFrame.fillna("").to_dict("records") of one worksheet.
ReadSheet(sheet) ==
    [i \in 1..Len(sheet.cells) |->
        [c \in sheet.columns |-> FromCell(sheet.cells[i][c])]]

\* The dict read_test_cases returns for a workbook.
ReadWorkbook(book) ==
    [test_cases |-> ReadSheet(book.test_cases),
     api_tests |-> ReadSheet(book.api_tests)]

(***************************************************************************)
(* Input texts.  The model's inputs are built from JSON fragments: the     *)
(* objects and the malformed fragments an LLM answer holds.                 *)
(***************************************************************************)
MaxItems == 2
MaxBodyItems == 3

Str(name) == <<QUOTE, name, QUOTE>>
Member(key, value) == Str(key) \o <<COLON>> \o value

RECURSIVE JoinComma(_)
JoinComma(parts) ==
    IF parts = <<>> THEN <<>>
    ELSE IF Len(parts) = 1 THEN parts[1]
    ELSE parts[1] \o <<COMMA>> \o JoinComma(Tail(parts))

Object(members) == <<LB>> \o JoinComma(members) \o <<RB>>

SeqsUpTo(S, n) == UNION {[1..k -> S] : k \in 0..n}

\* Well-formed objects.
IdOnly(d) == Object(<<Member("test_id", <<d>>)>>)
UiFull(d) ==
    Object(<<Member("test_id", <<d>>), Member("description", Str("login")),
             Member("steps", <<LS, RS>>), Member("expected_result", <<d>>)>>)
UiNoExpected(d) ==
    Object(<<Member("test_id", <<d>>), Member("description", Str("login")),
             Member("steps", <<LS, RS>>)>>)
ApiFull(d) ==
    Object(<<Member("test_id", <<d>>), Member("method", Str("GET")),
             Member("url", Str("u")), Member("expected_status", <<d>>)>>)
ApiNoMethod(d) ==
    Object(<<Member("test_id", <<d>>), Member("url", Str("u")),
             Member("expected_status", <<d>>)>>)
ApiPayload(d) ==
    Object(<<Member("test_id", <<d>>), Member("method", Str("POST")),
             Member("url", Str("u")), Member("expected_status", <<d>>),
             Member("payload", Object(<<Member("name", <<d>>)>>))>>)
\* A well-formed object with a closing brace inside a string value.
BraceInString(d) ==
    Object(<<Member("test_id", <<d>>), Member("description", <<QUOTE, RB, QUOTE>>)>>)

\* Malformed fragments.
StrayClose == <<RB>>
Truncated == <<LB>> \o Member("test_id", <<>>)
BareName == <<LB, "test_id", RB>>
TrailingComma == <<LB>> \o Member("test_id", <<"1">>) \o <<COMMA, RB>>

Item(wf, text) == [wf |-> wf, text |-> text]

\* The items of an array body: well-formed objects and malformed fragments.
BodyItems ==
    {Item(TRUE, IdOnly("1")), Item(TRUE, UiFull("2")), Item(TRUE, ApiPayload("3")),
     Item(TRUE, BraceInString("4")),
     Item(FALSE, StrayClose), Item(FALSE, Truncated), Item(FALSE, BareName),
     Item(FALSE, TrailingComma)}

RECURSIVE ItemTexts(_)
ItemTexts(items) ==
    IF items = <<>> THEN <<>> ELSE <<Head(items).text>> \o ItemTexts(Tail(items))

\* An array body: the items, comma-separated.
RenderBody(items) == JoinComma(ItemTexts(items))

(***************************************************************************)
(* State.                                                                  *)
(***************************************************************************)
VARIABLES
    \* _extract_complete_objects on an array body
    ex_items,       \* the items the body was built from
    array_text,     \* the argument
    ex_objects,     \* the returned list
    ex_pc,          \* "call", "done"
    \* json_to_excel and _parse_with_retry
    doc,            \* what the input text was built from
    llm_output,     \* json_to_excel's argument
    has_callback,   \* json_continue_callback was supplied
    pc,             \* "call", "pass", "callback", "filter", "done"
    raw_json,       \* the local raw_json of _parse_with_retry
    attempt,        \* the loop variable of _parse_with_retry
    passes,         \* the texts the extraction passes ran on, in order
    cb_args,        \* the texts the callback was invoked with, in order
    cb_rets,        \* what each invocation returned; <<"raise">> when it failed
    parsed,         \* what _parse_with_retry returned
    raised,         \* an exception left _parse_with_retry
    kept,           \* json_to_excel's filtered lists
    outcome,        \* "running", "ok", "empty_input", "no_valid", "error"
    sheets,         \* the _write_sheet calls made: name, rows, columns
    \* LLMClient.generate_with_fallback
    models_cfg,         \* config["models"]: the enabled flags and "preferred"
    preferred_provider, \* the argument
    gen_pc,             \* "call", "loop", "done"
    providers,          \* the resolved order
    idx,                \* the position of the for loop in providers
    errors,             \* the errors dict, in insertion order: <<provider, message>>
    invocations,        \* the adapter calls made, in order, each with its outcome
    gen_result,         \* the text returned or the aggregate failure raised
    \* the handler's life, the files, and GenAITestFramework around them
    requirements_file,  \* ExcelHandler's constructor argument
    output_path,        \* ExcelHandler.output_path
    fs,                 \* the files: a function from paths to contents
    calls,              \* the json_to_excel calls that ended, in order
    read_result,        \* what the last read_test_cases call did
    files,              \* the requirement files of the folder, in glob order
    file_idx,           \* how many of them were taken up
    written,            \* the paths generate_executable_tests wrote, in order
    exec_outcome,       \* of generate_executable_tests: "none", "ok", "raised"
    \* TestGenerator.resolve_step
    step_text,          \* the argument
    step_definitions,   \* the argument; ALL_STEPS by default
    step_pc,            \* "idle", "call", "done"
    resolved,           \* what the call returned, or the exception it raised
    \* LLMClient.generate_with_ollama and generate_with_gemini
    ollama_cfg,         \* config["models"]["ollama"]: model, startup_timeout
    cfg_before,         \* config["models"]["ollama"] when generate_with_fallback began
    ollama_env,         \* the machine: whether the CLI is installed, the installed models
    requested_model,    \* the local requested_model of generate_with_ollama
    ollama_pc,          \* the position in generate_with_ollama
    waited,             \* the polls of the running wait loop, one per interval
    ollama_log,         \* what generate_with_ollama did, in order
    ollama_result,      \* the text returned or the error raised
    gemini_cfg,         \* config["models"]["gemini"]: whether api_key is set
    gemini_log,         \* the responses requests.post gave, in order
    gemini_result       \* the text returned or the error raised

exVars == <<ex_items, array_text, ex_objects, ex_pc>>
parseVars == <<doc, llm_output, has_callback, pc, raw_json, attempt, passes,
               cb_args, cb_rets, parsed, raised, kept, outcome, sheets>>
genVars == <<models_cfg, preferred_provider, gen_pc, providers, idx, errors,
             invocations, gen_result>>
lifeVars == <<requirements_file, output_path, fs, calls, read_result, files,
              file_idx, written, exec_outcome>>
stepVars == <<step_text, step_definitions, step_pc, resolved>>
adapterVars == <<ollama_cfg, cfg_before, ollama_env, requested_model, ollama_pc, waited,
                 ollama_log, ollama_result, gemini_cfg, gemini_log,
                 gemini_result>>
vars == <<exVars, parseVars, genVars, lifeVars, stepVars, adapterVars>>

\* resolve_step is not called.
StepIdle ==
    /\ step_text = <<>>
    /\ step_definitions = <<>>
    /\ step_pc = "idle"
    /\ resolved = <<>>

\* No adapter is entered: the adapters are cut at their return.
AdapterIdle ==
    /\ ollama_cfg = <<>>
    /\ cfg_before = <<>>
    /\ ollama_env = <<>>
    /\ requested_model = <<>>
    /\ ollama_pc = "idle"
    /\ waited = 0
    /\ ollama_log = <<>>
    /\ ollama_result = <<>>
    /\ gemini_cfg = <<>>
    /\ gemini_log = <<>>
    /\ gemini_result = <<>>

ExIdle ==
    /\ ex_items = <<>>
    /\ array_text = <<>>
    /\ ex_objects = <<>>
    /\ ex_pc = "idle"

NoParsed == [test_cases |-> <<>>, api_tests |-> <<>>]

ParseFresh ==
    /\ raw_json = <<>>
    /\ attempt = 0
    /\ passes = <<>>
    /\ cb_args = <<>>
    /\ cb_rets = <<>>
    /\ parsed = NoParsed
    /\ raised = FALSE
    /\ kept = NoParsed
    /\ outcome = "running"
    /\ sheets = <<>>

ParseIdle ==
    /\ doc = [kind |-> "none"]
    /\ llm_output = <<>>
    /\ has_callback = FALSE
    /\ pc = "idle"
    /\ ParseFresh

(***************************************************************************)
(* Files.  A path is <<directory, base name, extension>>; the file system  *)
(* is a function from the paths that exist to what the files hold.          *)
(***************************************************************************)
NoFiles == [p \in {} |-> <<>>]

\* os.path.exists(path)
Exists(f, path) == path \in DOMAIN f

\* Opening the path for writing and writing content: a file that was there
\* is replaced.
WriteFile(f, path, content) ==
    [q \in DOMAIN f \cup {path} |-> IF q = path THEN content ELSE f[q]]

\* os.remove(path)
RemoveFile(f, path) == [q \in DOMAIN f \ {path} |-> f[q]]

\* config["paths"]["excel_output"], and ExcelHandler's default output_dir.
OUTPUT_DIR == "outputs"

\* os.path.splitext(os.path.basename(path))[0]
Stem(path) == path[2]

\* The base name is taken from the requirements file whenever one is given.
BaseName(requirements) ==
    IF requirements # "None" THEN Stem(requirements) ELSE "test_cases"

\* ExcelHandler.__init__: self.output_path
OutputPath(output_dir, requirements) ==
    <<output_dir, BaseName(requirements), "xlsx">>

Unread == [kind |-> "unread"]

\* In the place of a file's content: no file is at the path.
Absent == [absent |-> TRUE]

\* Nothing was read, no file of the folder taken up, no script written.
FrameworkIdle ==
    /\ calls = <<>>
    /\ read_result = Unread
    /\ files = <<>>
    /\ file_idx = 0
    /\ written = <<>>
    /\ exec_outcome = "none"

\* No handler was constructed.
LifeIdle ==
    /\ requirements_file = "None"
    /\ output_path = "None"
    /\ fs = NoFiles
    /\ FrameworkIdle

\* A handler constructed with the default arguments; no file is at its path.
HandlerBuilt ==
    /\ requirements_file = "None"
    /\ output_path = OutputPath(OUTPUT_DIR, "None")
    /\ fs = NoFiles
    /\ FrameworkIdle

(***************************************************************************)
(* The texts json_to_excel is given: an object with the two arrays in      *)
(* either order or one of them, markdown-fenced or not, whole or cut short *)
(* (a truncated answer), and texts that hold no JSON.                       *)
(***************************************************************************)
UiItems ==
    {Item(TRUE, UiFull("1")), Item(TRUE, UiNoExpected("2")), Item(FALSE, BareName)}
ApiItems ==
    {Item(TRUE, ApiFull("3")), Item(TRUE, ApiNoMethod("4"))}

KeyOrders ==
    {<<"test_cases">>, <<"api_tests">>, <<"test_cases", "api_tests">>,
     <<"api_tests", "test_cases">>}

InOrder(key, order) == \E n \in 1..Len(order) : order[n] = key

JsonDocs ==
    {d \in [kind : {"json"}, fenced : BOOLEAN, truncated : BOOLEAN,
            order : KeyOrders, ui : SeqsUpTo(UiItems, MaxItems),
            api : SeqsUpTo(ApiItems, MaxItems)] :
        /\ InOrder("test_cases", d.order) \/ d.ui = <<>>
        /\ InOrder("api_tests", d.order) \/ d.api = <<>>}

BlankDoc(text) == [kind |-> "blank", text |-> text]
ProseDoc(text) == [kind |-> "prose", text |-> text]
OtherDocs ==
    {BlankDoc(<<>>), BlankDoc(<<SP, NL>>), ProseDoc(<<"sorry">>),
     ProseDoc(<<FENCE>>)}

Section(key, items) ==
    Str(key) \o <<COLON, SP, LS>> \o RenderBody(items) \o <<RS>>

RECURSIVE Sections(_, _)
Sections(d, order) ==
    IF order = <<>> THEN <<>>
    ELSE <<Section(Head(order), IF Head(order) = "test_cases" THEN d.ui ELSE d.api)>>
         \o Sections(d, Tail(order))

WholeJson(d) == <<LB>> \o JoinComma(Sections(d, d.order)) \o <<RB>>

\* A truncated answer: the text stops before its last three tokens.
CutShort(t) == SubSeq(t, 1, Len(t) - 3)

RenderDoc(d) ==
    IF d.kind # "json" THEN d.text
    ELSE LET body == IF d.truncated THEN CutShort(WholeJson(d)) ELSE WholeJson(d)
         IN  IF d.fenced
             THEN <<FENCE, "json", NL>> \o body
                  \o (IF d.truncated THEN <<>> ELSE <<NL, FENCE>>)
             ELSE body

\* What the continuation callback may return.
Continuations ==
    {<<>>,
     <<"sorry">>,
     <<SP, NL, RB, RS, RB>>,
     <<NL, LB>> \o Section("test_cases", <<Item(TRUE, UiFull("1"))>>) \o <<RB>>,
     <<LB>> \o Section("api_tests", <<Item(TRUE, ApiNoMethod("4"))>>) \o <<RB>>}

(***************************************************************************)
(* LLMClient._resolve_provider_order.  The configuration is read through   *)
(* each provider's "enabled" flag ("unset" when the provider's section or   *)
(* the flag is absent) and through models.preferred.                        *)
(***************************************************************************)
None == "None"
KnownProviders == {"openai", "gemini", "ollama", "deepseek"}
\* A name that generate_with_fallback has no adapter for.
UnknownProvider == "claude"

\* The order of the docstring of generate_with_fallback.
DocstringOrder == <<"openai", "gemini", "ollama", "deepseek">>

\* for p in ("ollama", "gemini", "openai", "deepseek")
DefaultOrder == <<"ollama", "gemini", "openai", "deepseek">>

InSeq(x, seq) == \E n \in 1..Len(seq) : seq[n] = x

\* Every name counts as enabled: the flag is not looked at.
IsEnabledIgnoringFlag(cfg, name) == TRUE

\* is_enabled(name): cfg.get("enabled", True) of models_cfg.get(name, {})
IsEnabled(cfg, name) ==
    IF name \in DOMAIN cfg.enabled /\ cfg.enabled[name] # "unset"
    THEN cfg.enabled[name] = "true"
    ELSE TRUE

\* The explicit preferred provider is taken without the enabled check.
ExplicitPreferredUnchecked(cfg, preferred) ==
    IF preferred # None THEN <<preferred>> ELSE <<>>

\* "if preferred_provider and is_enabled(preferred_provider)"
ExplicitPreferred(cfg, preferred) ==
    IF preferred # None /\ IsEnabled(cfg, preferred) THEN <<preferred>> ELSE <<>>

\* The configured preferred provider, appended to the order so far.
ConfigPreferred(cfg, enabled) ==
    IF cfg.preferred # None /\ cfg.preferred # "auto"
       /\ IsEnabled(cfg, cfg.preferred) /\ ~InSeq(cfg.preferred, enabled)
    THEN Append(enabled, cfg.preferred)
    ELSE enabled

\* A default appended without the "p not in enabled" check.
AppendDefaultUnchecked(cfg, enabled, p) ==
    IF IsEnabled(cfg, p) THEN Append(enabled, p) ELSE enabled

\* "if is_enabled(p) and p not in enabled: enabled.append(p)"
AppendDefault(cfg, enabled, p) ==
    IF IsEnabled(cfg, p) /\ ~InSeq(p, enabled) THEN Append(enabled, p) ELSE enabled

RECURSIVE AppendDefaults(_, _, _)
AppendDefaults(cfg, enabled, n) ==
    IF n > Len(DefaultOrder) THEN enabled
    ELSE AppendDefaults(cfg, AppendDefault(cfg, enabled, DefaultOrder[n]), n + 1)

ResolveProviderOrder(cfg, preferred) ==
    AppendDefaults(cfg, ConfigPreferred(cfg, ExplicitPreferred(cfg, preferred)), 1)

(***************************************************************************)
(* LLMClient.generate_with_fallback.  The handler is cut at its adapter    *)
(* calls, each of which returns a text or raises.                           *)
(***************************************************************************)
ErrorMessages == {"timeout", "unauthorized"}

\* The text a provider's adapter returns.
Output(provider) == <<"text of", provider>>

NoResult == [kind |-> "none", provider |-> None, text |-> <<>>, report |-> <<>>]

Configs ==
    [enabled : [KnownProviders -> {"unset", "true", "false"}],
     preferred : {None, "auto", UnknownProvider} \cup KnownProviders]

GenFresh ==
    /\ providers = <<>>
    /\ idx = 0
    /\ errors = <<>>
    /\ invocations = <<>>
    /\ gen_result = NoResult

GenIdle ==
    /\ models_cfg = [enabled |-> [p \in KnownProviders |-> "unset"], preferred |-> None]
    /\ preferred_provider = None
    /\ gen_pc = "idle"
    /\ GenFresh

(***************************************************************************)
(* _extract_complete_objects applied to array bodies.                      *)
(***************************************************************************)
ExtractInit ==
    /\ ex_items \in SeqsUpTo(BodyItems, MaxBodyItems)
    /\ array_text = RenderBody(ex_items)
    /\ ex_objects = <<>>
    /\ ex_pc = "call"
    /\ ParseIdle
    /\ GenIdle
    /\ LifeIdle
    /\ StepIdle
    /\ AdapterIdle

ExtractCall ==
    /\ ex_pc = "call"
    /\ ex_objects' = ExtractCompleteObjects(array_text)
    /\ ex_pc' = "done"
    /\ UNCHANGED <<ex_items, array_text, parseVars, genVars,
                   lifeVars,
                   stepVars, adapterVars>>

ExtractNext == ExtractCall

SpecExtract == ExtractInit /\ [][ExtractNext]_vars

\* The objects of the well-formed items, in order.
RECURSIVE WellFormedObjects(_)
WellFormedObjects(items) ==
    IF items = <<>> THEN <<>>
    ELSE IF Head(items).wf
         THEN <<Loads(Head(items).text)>> \o WellFormedObjects(Tail(items))
         ELSE WellFormedObjects(Tail(items))

\* C1: for an array body of N well-formed objects and M malformed fragments,
\* _extract_complete_objects returns exactly the N well-formed objects in
\* their original order, wherever the fragments sit.
C1_ExactlyWellFormed ==
    ex_pc = "done" => ex_objects = WellFormedObjects(ex_items)

(***************************************************************************)
(* ExcelHandler.json_to_excel and ExcelHandler._parse_with_retry.  The     *)
(* handler is cut where it calls the continuation callback, which the      *)
(* caller supplies.                                                         *)
(***************************************************************************)
ParseInit ==
    /\ doc \in JsonDocs \cup OtherDocs
    /\ llm_output = RenderDoc(doc)
    /\ has_callback \in BOOLEAN
    /\ pc = "call"
    /\ ParseFresh
    /\ ExIdle
    /\ StepIdle
    /\ AdapterIdle
    /\ GenIdle
    /\ HandlerBuilt

\* "not llm_output" alone: the text has no character.
IsEmptyText(text) == text = <<>>

\* "not llm_output or not llm_output.strip()"
IsBlank(text) == text = <<>> \/ Strip(text) = <<>>

\* What is kept of a json_to_excel call that ended: its input, what the
\* callback returned to it, how it ended ("ok": "return self.output_path"),
\* the value it returned, the filtered lists, and the artifact it left at the
\* handler's path (Absent when there is none).
EndedCall(result, lists, f) ==
    [text |-> llm_output, rets |-> cb_rets, outcome |-> result,
     returned |-> IF result = "ok" THEN output_path ELSE "None",
     kept |-> lists,
     book |-> IF Exists(f, output_path) THEN f[output_path] ELSE Absent]

\* json_to_excel up to the first extraction pass: the empty-input check and
\* _parse_with_retry's markdown stripping.
JsonToExcelCall ==
    /\ pc = "call"
    /\ IF IsBlank(llm_output)
       THEN /\ outcome' = "empty_input"
            /\ pc' = "done"
            /\ calls' = Append(calls, EndedCall("empty_input", kept, fs))
            /\ UNCHANGED raw_json
       ELSE /\ raw_json' = StripMarkdown(llm_output)
            /\ pc' = "pass"
            /\ UNCHANGED <<outcome, calls>>
    /\ UNCHANGED <<doc, llm_output, has_callback, attempt, passes, cb_args,
                   cb_rets, parsed, raised, kept, sheets, exVars, genVars,
                   requirements_file, output_path, fs, read_result, files,
                   file_idx, written, exec_outcome,
                   stepVars, adapterVars>>

\* The callback is called whether or not one was supplied.
AfterEmptyPassUnchecked(att, callback) ==
    IF att = 0 THEN [pc |-> "callback", attempt |-> att]
    ELSE [pc |-> "filter", attempt |-> att]

\* "for attempt in range(3)": a third pass after two empty ones.
AfterEmptyPassOfThree(att, callback) ==
    IF att = 0 /\ callback THEN [pc |-> "callback", attempt |-> att]
    ELSE IF att < 2 THEN [pc |-> "pass", attempt |-> att + 1]
    ELSE [pc |-> "filter", attempt |-> att]

\* Where the loop goes after a pass that left both lists empty.
AfterEmptyPass(att, callback) ==
    IF att = 0 /\ callback THEN [pc |-> "callback", attempt |-> att]
    ELSE IF att = 0 THEN [pc |-> "pass", attempt |-> 1]
    ELSE [pc |-> "filter", attempt |-> att]

\* One iteration of "for attempt in range(2)" up to the callback.
ExtractionPass ==
    /\ pc = "pass"
    /\ passes' = Append(passes, raw_json)
    /\ LET tc == ExtractArray(raw_json, "test_cases")
           at == ExtractArray(raw_json, "api_tests")
       IN  IF tc # <<>> \/ at # <<>>
           THEN /\ parsed' = [test_cases |-> tc, api_tests |-> at]
                /\ pc' = "filter"
                /\ UNCHANGED attempt
           ELSE /\ pc' = AfterEmptyPass(attempt, has_callback).pc
                /\ attempt' = AfterEmptyPass(attempt, has_callback).attempt
                /\ parsed' = NoParsed
    /\ UNCHANGED <<doc, llm_output, has_callback, raw_json, cb_args, cb_rets,
                   raised, kept, outcome, sheets, exVars, genVars,
                   lifeVars,
                   stepVars, adapterVars>>

\* The callback returns text: the texts are merged and the loop goes on.
CallbackReturns ==
    /\ pc = "callback"
    /\ \E c \in Continuations :
        /\ cb_rets' = Append(cb_rets, [kind |-> "text", text |-> c])
        /\ raw_json' = MergeJsonOutputs(raw_json, c)
    /\ cb_args' = Append(cb_args, raw_json)
    /\ attempt' = 1
    /\ pc' = "pass"
    /\ UNCHANGED <<doc, llm_output, has_callback, passes, parsed, raised, kept,
                   outcome, sheets, exVars, genVars,
                   lifeVars,
                   stepVars, adapterVars>>

\* No try block: the exception leaves _parse_with_retry.
CallbackFailurePropagates == [pc |-> "raised", raised |-> TRUE]

\* What an exception inside the try block does: "except Exception: break"
\* leaves the loop, and the empty mapping is returned.
OnCallbackFailure == [pc |-> "filter", raised |-> FALSE]

\* The callback raises, or returns None so that the merge raises.
CallbackFails ==
    /\ pc = "callback"
    /\ \E k \in {"raise", "none"} :
        cb_rets' = Append(cb_rets, [kind |-> k, text |-> <<>>])
    /\ cb_args' = Append(cb_args, raw_json)
    /\ pc' = OnCallbackFailure.pc
    /\ raised' = OnCallbackFailure.raised
    /\ UNCHANGED <<doc, llm_output, has_callback, raw_json, attempt, passes,
                   parsed, kept, outcome, sheets, exVars, genVars,
                   lifeVars,
                   stepVars, adapterVars>>

\* "not test_cases or not api_tests": either list is empty.
EitherEmpty(tests, apis) == tests = <<>> \/ apis = <<>>

\* "not test_cases and not api_tests"
NoValid(tests, apis) == tests = <<>> /\ apis = <<>>

\* An ExcelWriter opened in append mode: the rows are added under the rows
\* of the book that is at the path.
ExcelWriterAppending(f, path, book) ==
    LET old == f[path]
        rows(s) == old[s].cells \o book[s].cells
        merged == [s \in {"test_cases", "api_tests"} |->
                      [columns |-> old[s].columns \cup book[s].columns,
                       cells |-> [i \in 1..Len(rows(s)) |->
                          [c \in old[s].columns \cup book[s].columns |->
                              IF c \in DOMAIN rows(s)[i] THEN rows(s)[i][c]
                              ELSE NaN]]]]
    IN  IF Exists(f, path) THEN WriteFile(f, path, merged)
        ELSE WriteFile(f, path, book)

\* "with pd.ExcelWriter(self.output_path, engine="openpyxl") as writer": the
\* default mode "w" writes a new book in the place of what is at the path.
ExcelWriter(f, path, book) == WriteFile(f, path, book)

\* The writer opened before the no-valid-records check: a book is written
\* whatever the filtered lists hold.
WrittenBeforeCheck(f, path, tests, apis) ==
    ExcelWriter(f, path, Workbook(tests, apis))

\* The files after the end of json_to_excel: "raise ValueError" on no valid
\* records comes before the writer is opened, so the files stay as they are.
WrittenAfterCheck(f, path, tests, apis) ==
    IF NoValid(tests, apis) THEN f ELSE ExcelWriter(f, path, Workbook(tests, apis))

\* json_to_excel after _parse_with_retry returned: the filtering, then the
\* no-valid-records failure or the two _write_sheet calls.
FilterAndWrite ==
    /\ pc = "filter"
    /\ LET tests == FilterValid(parsed.test_cases, REQUIRED_TEST_FIELDS)
           apis == FilterValid(parsed.api_tests, REQUIRED_API_FIELDS)
       IN  /\ kept' = [test_cases |-> tests, api_tests |-> apis]
           /\ IF NoValid(tests, apis)
              THEN /\ outcome' = "no_valid"
                   /\ UNCHANGED sheets
              ELSE /\ outcome' = "ok"
                   /\ sheets' =
                        <<[name |-> "test_cases", rows |-> tests,
                           columns |-> REQUIRED_TEST_FIELDS],
                          [name |-> "api_tests", rows |-> apis,
                           columns |-> REQUIRED_API_FIELDS]>>
           /\ fs' = WrittenAfterCheck(fs, output_path, tests, apis)
           /\ calls' = Append(calls,
                  EndedCall(IF NoValid(tests, apis) THEN "no_valid" ELSE "ok",
                            [test_cases |-> tests, api_tests |-> apis], fs'))
    /\ pc' = "done"
    /\ UNCHANGED <<doc, llm_output, has_callback, raw_json, attempt, passes,
                   cb_args, cb_rets, parsed, raised, exVars, genVars,
                   requirements_file, output_path, read_result, files,
                   file_idx, written, exec_outcome,
                   stepVars, adapterVars>>

ParseNext ==
    \/ JsonToExcelCall
    \/ ExtractionPass
    \/ CallbackReturns
    \/ CallbackFails
    \/ FilterAndWrite

SpecParse == ParseInit /\ [][ParseNext]_vars

(***************************************************************************)
(* _parse_with_retry called on its own, as a caller of the recovery parser *)
(* does: no empty-input check stands before it.  It has returned when pc   *)
(* is "filter".                                                             *)
(***************************************************************************)
RecoveryInit ==
    /\ doc \in JsonDocs \cup OtherDocs
    /\ llm_output = RenderDoc(doc)
    /\ has_callback \in BOOLEAN
    /\ pc = "parse"
    /\ ParseFresh
    /\ ExIdle
    /\ StepIdle
    /\ AdapterIdle
    /\ GenIdle
    /\ HandlerBuilt

\* "raw_json = self._strip_markdown(raw_json)"
ParseWithRetryCall ==
    /\ pc = "parse"
    /\ raw_json' = StripMarkdown(llm_output)
    /\ pc' = "pass"
    /\ UNCHANGED <<doc, llm_output, has_callback, attempt, passes, cb_args,
                   cb_rets, parsed, raised, kept, outcome, sheets, exVars,
                   genVars, lifeVars,
                   stepVars, adapterVars>>

RecoveryNext ==
    \/ ParseWithRetryCall
    \/ ExtractionPass
    \/ CallbackReturns
    \/ CallbackFails

SpecRecovery == RecoveryInit /\ [][RecoveryNext]_vars

(***************************************************************************)
(* The life of one ExcelHandler: it is constructed, then its caller calls  *)
(* json_to_excel and read_test_cases in any order.                          *)
(***************************************************************************)
MaxCalls == 2

LoginRequirements == <<"requirements", "login", "md">>

Doc(order, ui, api) ==
    [kind |-> "json", fenced |-> FALSE, truncated |-> FALSE, order |-> order,
     ui |-> ui, api |-> api]

\* A test case with one step.
UiSteps(d) ==
    Object(<<Member("test_id", <<d>>), Member("description", Str("login")),
             Member("steps", <<LS>> \o Str("open") \o <<RS>>),
             Member("expected_result", Str("ok"))>>)

\* An API record whose description is a string read_excel takes for missing.
ApiNa(d) ==
    Object(<<Member("test_id", <<d>>), Member("description", Str("NA")),
             Member("method", Str("GET")), Member("url", Str("u")),
             Member("expected_status", <<d>>)>>)

\* The answers the handler is called with: records of one category, of both,
\* a record with an optional field next to one without it, records that miss
\* a required field, and answers that hold no JSON.
HandlerDocs ==
    {Doc(<<"test_cases">>, <<Item(TRUE, UiFull("1"))>>, <<>>),
     Doc(<<"api_tests">>, <<>>,
         <<Item(TRUE, ApiFull("3")), Item(TRUE, ApiPayload("4"))>>),
     Doc(<<"api_tests">>, <<>>, <<Item(TRUE, ApiNa("1"))>>),
     Doc(<<"test_cases", "api_tests">>, <<Item(TRUE, UiFull("2"))>>,
         <<Item(TRUE, ApiFull("3"))>>),
     Doc(<<"test_cases">>, <<Item(TRUE, UiSteps("3"))>>, <<>>),
     Doc(<<"test_cases">>, <<Item(TRUE, UiNoExpected("2"))>>, <<>>),
     BlankDoc(<<>>), BlankDoc(<<SP, NL>>), ProseDoc(<<"sorry">>)}

\* A workbook left at the path by an earlier run.
StaleBook == Workbook(<<Loads(UiFull("4"))>>, <<>>)

StaleFiles ==
    [p \in {OutputPath(OUTPUT_DIR, "None"),
            OutputPath(OUTPUT_DIR, LoginRequirements)} |-> StaleBook]

HandlerInit ==
    /\ requirements_file \in {"None", LoginRequirements}
    /\ has_callback \in BOOLEAN
    /\ fs \in {NoFiles, StaleFiles}
    /\ output_path = "None"
    /\ pc = "construct"
    /\ doc = [kind |-> "none"]
    /\ llm_output = <<>>
    /\ ParseFresh
    /\ FrameworkIdle
    /\ ExIdle
    /\ StepIdle
    /\ AdapterIdle
    /\ GenIdle

\* The constructor without "if os.path.exists(...): os.remove(...)".
KeepExisting(f, path) == f

\* "if os.path.exists(self.output_path): os.remove(self.output_path)"
RemoveExisting(f, path) == IF Exists(f, path) THEN RemoveFile(f, path) ELSE f

\* ExcelHandler.__init__
Construct ==
    /\ pc = "construct"
    /\ output_path' = OutputPath(OUTPUT_DIR, requirements_file)
    /\ fs' = RemoveExisting(fs, OutputPath(OUTPUT_DIR, requirements_file))
    /\ pc' = "ready"
    /\ UNCHANGED <<doc, llm_output, has_callback, raw_json, attempt, passes,
                   cb_args, cb_rets, parsed, raised, kept, outcome, sheets,
                   requirements_file, calls, read_result, files, file_idx,
                   written, exec_outcome, exVars, genVars,
                   stepVars, adapterVars>>

\* A json_to_excel call begins with text: its locals are fresh.
Begin(d) ==
    /\ doc' = d
    /\ llm_output' = RenderDoc(d)
    /\ pc' = "call"
    /\ raw_json' = <<>>
    /\ attempt' = 0
    /\ passes' = <<>>
    /\ cb_args' = <<>>
    /\ cb_rets' = <<>>
    /\ parsed' = NoParsed
    /\ raised' = FALSE
    /\ kept' = NoParsed
    /\ outcome' = "running"
    /\ sheets' = <<>>

\* The caller calls json_to_excel on the handler.
CallerInvokes ==
    /\ pc \in {"ready", "done"}
    /\ Len(calls) < MaxCalls
    /\ \E d \in HandlerDocs : Begin(d)
    /\ UNCHANGED <<has_callback, lifeVars, exVars, genVars,
                   stepVars, adapterVars>>

NotFound(n) == [kind |-> "not_found", after |-> n]
Data(n, data) == [kind |-> "data", after |-> n, data |-> data]

\* ExcelHandler.read_test_cases, called after n json_to_excel calls ended.
ReadTestCases ==
    /\ pc \in {"ready", "done"}
    /\ read_result' =
          IF ~Exists(fs, output_path) THEN NotFound(Len(calls))
          ELSE Data(Len(calls), ReadWorkbook(fs[output_path]))
    /\ UNCHANGED <<parseVars, requirements_file, output_path, fs, calls, files,
                   file_idx, written, exec_outcome, exVars, genVars,
                   stepVars, adapterVars>>

HandlerNext ==
    \/ Construct
    \/ CallerInvokes
    \/ JsonToExcelCall
    \/ ExtractionPass
    \/ CallbackReturns
    \/ CallbackFails
    \/ FilterAndWrite
    \/ ReadTestCases

SpecHandler == HandlerInit /\ [][HandlerNext]_vars

(***************************************************************************)
(* GenAITestFramework (main.py): one ExcelHandler constructed with the     *)
(* output directory alone, generate_from_requirements_folder calling       *)
(* json_to_excel on it once per requirement file with the answer of the    *)
(* LLM, and generate_executable_tests writing one script per record read.  *)
(***************************************************************************)
MaxFiles == 2

WEB_DIR == "generated_web_tests"
API_DIR == "generated_api_tests"

RequirementFiles ==
    {<<"requirements", "login", "md">>, <<"requirements", "products", "md">>,
     <<"requirements", "cart", "md">>}

\* glob.glob(folder/*.md): some of the files, each once, in some order.
FileOrders ==
    {o \in SeqsUpTo(RequirementFiles, MaxFiles) :
        /\ o # <<>>
        /\ \A i, j \in 1..Len(o) : i # j => o[i] # o[j]}

\* A test case with a string identifier; steps is the list's text.
WebCase(id, steps) ==
    Object(<<Member("test_id", Str(id)), Member("description", Str("login")),
             Member("steps", steps), Member("expected_result", Str("ok"))>>)

\* An API test with a string identifier and the expected response code.
ApiCase(id) ==
    Object(<<Member("test_id", Str(id)), Member("method", Str("GET")),
             Member("url", Str("u")), Member("expected_status", <<"2">>),
             Member("expected_response", <<"2">>)>>)

\* An API test without the expected response code.
ApiCaseBare(id) ==
    Object(<<Member("test_id", Str(id)), Member("method", Str("GET")),
             Member("url", Str("u")), Member("expected_status", <<"2">>)>>)

NoSteps == <<LS, RS>>
OneStep == <<LS>> \o Str("open") \o <<RS>>

\* The answers of the LLM.
FrameworkDocs ==
    {Doc(<<"test_cases", "api_tests">>, <<Item(TRUE, WebCase("TC1", NoSteps))>>,
         <<Item(TRUE, ApiCase("API1"))>>),
     Doc(<<"test_cases", "api_tests">>,
         <<Item(TRUE, WebCase("TC1", NoSteps)), Item(TRUE, WebCase("TC2", NoSteps))>>,
         <<Item(TRUE, ApiCase("API1")), Item(TRUE, ApiCaseBare("API2"))>>),
     Doc(<<"test_cases">>,
         <<Item(TRUE, WebCase("TC1", NoSteps)), Item(TRUE, WebCase("tc1", NoSteps))>>,
         <<>>),
     Doc(<<"test_cases">>, <<Item(TRUE, WebCase("TC2", OneStep))>>, <<>>),
     Doc(<<"api_tests">>, <<>>, <<Item(TRUE, ApiCaseBare("API1"))>>),
     Doc(<<"test_cases">>, <<Item(TRUE, UiFull("1"))>>, <<>>),
     ProseDoc(<<"sorry">>)}

\* "test_" + test_id.lower(), the base name of the script of a test.
ScriptName(id) ==
    CASE id \in {"TC1", "tc1"} -> "test_tc1"
      [] id = "TC2" -> "test_tc2"
      [] id = "API1" -> "test_api1"
      [] id = "API2" -> "test_api2"

ScriptPath(dir, test_case) ==
    <<dir, ScriptName(Content(test_case[<<"test_id">>])[1]), "py">>

\* What a script file holds.
Script(kind, test_case) == [kind |-> kind, test_id |-> test_case[<<"test_id">>]]
StaleScript == [kind |-> "stale", test_id |-> <<>>]

\* Scripts and a workbook left by an earlier run.
StaleRun ==
    [p \in {OutputPath(OUTPUT_DIR, "None"), <<WEB_DIR, "test_tc1", "py">>,
            <<API_DIR, "test_api1", "py">>} |->
        IF p[3] = "xlsx" THEN StaleBook ELSE StaleScript]

FrameworkInit ==
    /\ requirements_file = "None"
    /\ has_callback = FALSE
    /\ fs \in {NoFiles, StaleRun}
    /\ files \in FileOrders
    /\ output_path = "None"
    /\ pc = "construct"
    /\ doc = [kind |-> "none"]
    /\ llm_output = <<>>
    /\ ParseFresh
    /\ calls = <<>>
    /\ read_result = Unread
    /\ file_idx = 0
    /\ written = <<>>
    /\ exec_outcome = "none"
    /\ ExIdle
    /\ StepIdle
    /\ AdapterIdle
    /\ GenIdle

\* The for loop of generate_from_requirements_folder is at a file: the
\* handler is constructed and no earlier iteration raised.
AtFile ==
    /\ pc = "ready" \/ (pc = "done" /\ outcome = "ok")
    /\ file_idx < Len(files)
    /\ exec_outcome = "none"

\* generate_from_requirements for the next file: the LLM answers and
\* json_to_excel is called on the framework's handler with the answer.
GenerateFromRequirements ==
    /\ AtFile
    /\ file_idx' = file_idx + 1
    /\ \E d \in FrameworkDocs : Begin(d)
    /\ UNCHANGED <<has_callback, requirements_file, output_path, fs, calls,
                   read_result, files, written, exec_outcome, exVars, genVars,
                   stepVars, adapterVars>>

\* generate_test_cases raises (no provider answered): the loop is left.
GenerationFails ==
    /\ AtFile
    /\ file_idx' = file_idx + 1
    /\ pc' = "aborted"
    /\ UNCHANGED <<doc, llm_output, has_callback, raw_json, attempt, passes,
                   cb_args, cb_rets, parsed, raised, kept, outcome, sheets,
                   requirements_file, output_path, fs, calls, read_result,
                   files, written, exec_outcome, exVars, genVars,
                   stepVars, adapterVars>>

\* json.loads(steps) gives a list whose steps all resolve: the text is a JSON
\* list, and it is empty (a step that is not a string makes resolve_step
\* raise TypeError, and the text of a list of strings is not JSON).
StepsUsable(steps) ==
    /\ IsString(steps)
    /\ LET text == Content(steps) IN
       /\ text # <<>>
       /\ Head(text) = LS
       /\ ParseValue(text, 1) = Len(text) + 1
       /\ Len(text) = 2

\* generate_playwright_test returns code: test_id has .lower(), and steps is
\* a list or a string that json.loads turns into a list.
WebGenerates(test_case) ==
    /\ IsString(test_case[<<"test_id">>])
    /\ StepsUsable(test_case[<<"steps">>])

\* generate_pytest_api_test returns code: test_id and method have .upper(),
\* and test_case['expected_response'] is there.
ApiGenerates(test_case) ==
    /\ IsString(test_case[<<"test_id">>])
    /\ IsString(test_case[<<"method">>])
    /\ <<"expected_response">> \in DOMAIN test_case

Generates(kind, test_case) ==
    IF kind = "web" THEN WebGenerates(test_case) ELSE ApiGenerates(test_case)

\* One of the two for loops of generate_executable_tests from record i: the
\* files and the paths written so far, and whether an exception left it.
RECURSIVE WriteScripts(_, _, _, _, _, _)
WriteScripts(f, w, records, i, kind, dir) ==
    IF i > Len(records) THEN [fs |-> f, written |-> w, raised |-> FALSE]
    ELSE IF ~Generates(kind, records[i])
         THEN [fs |-> f, written |-> w, raised |-> TRUE]
    ELSE WriteScripts(WriteFile(f, ScriptPath(dir, records[i]),
                                Script(kind, records[i])),
                      Append(w, ScriptPath(dir, records[i])),
                      records, i + 1, kind, dir)

\* GenAITestFramework.generate_executable_tests
GenerateExecutableTests ==
    /\ pc \in {"ready", "done"}
    /\ exec_outcome = "none"
    /\ IF ~Exists(fs, output_path)
       THEN /\ exec_outcome' = "raised"
            /\ read_result' = NotFound(Len(calls))
            /\ UNCHANGED <<fs, written>>
       ELSE LET data == ReadWorkbook(fs[output_path])
                web == WriteScripts(fs, written, data.test_cases, 1, "web", WEB_DIR)
                api == WriteScripts(web.fs, web.written, data.api_tests, 1,
                                    "api", API_DIR)
            IN  /\ read_result' = Data(Len(calls), data)
                /\ IF web.raised
                   THEN /\ fs' = web.fs
                        /\ written' = web.written
                        /\ exec_outcome' = "raised"
                   ELSE /\ fs' = api.fs
                        /\ written' = api.written
                        /\ exec_outcome' = IF api.raised THEN "raised" ELSE "ok"
    /\ UNCHANGED <<parseVars, requirements_file, output_path, calls, files,
                   file_idx, exVars, genVars,
                   stepVars, adapterVars>>

FrameworkNext ==
    \/ Construct
    \/ GenerateFromRequirements
    \/ GenerationFails
    \/ JsonToExcelCall
    \/ ExtractionPass
    \/ FilterAndWrite
    \/ GenerateExecutableTests

SpecFramework == FrameworkInit /\ [][FrameworkNext]_vars

FallbackInit ==
    /\ models_cfg \in Configs
    /\ preferred_provider \in {None, UnknownProvider} \cup KnownProviders
    /\ gen_pc = "call"
    /\ GenFresh
    /\ ExIdle
    /\ StepIdle
    /\ AdapterIdle
    /\ ParseIdle
    /\ LifeIdle

\* providers = self._resolve_provider_order(preferred_provider); errors = {}
GenerateCall ==
    /\ gen_pc = "call"
    /\ providers' = ResolveProviderOrder(models_cfg, preferred_provider)
    /\ idx' = 1
    /\ gen_pc' = "loop"
    /\ UNCHANGED <<models_cfg, preferred_provider, errors, invocations,
                   gen_result, exVars, parseVars,
                   lifeVars,
                   stepVars, adapterVars>>

AtProvider == gen_pc = "loop" /\ idx <= Len(providers)

\* The adapter of the current provider returns: its text is returned.
AdapterReturns ==
    /\ AtProvider
    /\ providers[idx] \in KnownProviders
    /\ invocations' = Append(invocations, [provider |-> providers[idx], result |-> "ok"])
    /\ gen_result' = [NoResult EXCEPT !.kind = "text", !.provider = providers[idx],
                                      !.text = Output(providers[idx])]
    /\ gen_pc' = "done"
    /\ UNCHANGED <<models_cfg, preferred_provider, providers, idx, errors,
                   exVars, parseVars,
                   lifeVars,
                   stepVars, adapterVars>>

\* Only the error of the last failure is kept.
RecordLastOnly(errs, provider, message) == <<<<provider, message>>>>

\* errors[provider] = str(e)
RecordError(errs, provider, message) ==
    IF \E n \in 1..Len(errs) : errs[n][1] = provider
    THEN [n \in 1..Len(errs) |->
             IF errs[n][1] = provider THEN <<provider, message>> ELSE errs[n]]
    ELSE Append(errs, <<provider, message>>)

\* A failure that skips the provider after the failed one.
NextProviderSkipping(i) == i + 2

\* The for loop goes to the next provider.
NextProvider(i) == i + 1

\* The adapter of the current provider raises: the error is recorded and
\* the loop goes on.
AdapterFails ==
    /\ AtProvider
    /\ providers[idx] \in KnownProviders
    /\ \E e \in ErrorMessages :
        /\ invocations' = Append(invocations, [provider |-> providers[idx], result |-> e])
        /\ errors' = RecordError(errors, providers[idx], e)
    /\ idx' = NextProvider(idx)
    /\ UNCHANGED <<models_cfg, preferred_provider, gen_pc, providers, gen_result,
                   exVars, parseVars,
                   lifeVars,
                   stepVars, adapterVars>>

\* "Unknown provider skipped": no adapter is called, no error recorded.
UnknownSkipped ==
    /\ AtProvider
    /\ providers[idx] \notin KnownProviders
    /\ idx' = NextProvider(idx)
    /\ UNCHANGED <<models_cfg, preferred_provider, gen_pc, providers, errors,
                   invocations, gen_result, exVars, parseVars,
                   lifeVars,
                   stepVars, adapterVars>>

\* The loop ended without a return: the aggregate RuntimeError, whose
\* report holds one line "- provider: error" per entry of errors.
AllProvidersFailed ==
    /\ gen_pc = "loop"
    /\ idx > Len(providers)
    /\ gen_result' = [NoResult EXCEPT !.kind = "error", !.report = errors]
    /\ gen_pc' = "done"
    /\ UNCHANGED <<models_cfg, preferred_provider, providers, idx, errors,
                   invocations, exVars, parseVars,
                   lifeVars,
                   stepVars, adapterVars>>

FallbackNext ==
    \/ GenerateCall
    \/ AdapterReturns
    \/ AdapterFails
    \/ UnknownSkipped
    \/ AllProvidersFailed

SpecFallback == FallbackInit /\ [][FallbackNext]_vars

(***************************************************************************)
(* The two retrying loops, each run to its end: a generate_with_fallback   *)
(* call or a _parse_with_retry call.  The program is sequential and every  *)
(* adapter and callback returns or raises, so a step that can be taken is   *)
(* taken.                                                                   *)
(***************************************************************************)
\* Every provider switched on or off, no preferred provider configured.
BoundedConfigs ==
    {c \in Configs : c.preferred = None /\ \A p \in KnownProviders : c.enabled[p] # "unset"}

BoundedInit ==
    \/ /\ models_cfg \in BoundedConfigs
       /\ preferred_provider \in {None, UnknownProvider, "deepseek"}
       /\ gen_pc = "call"
       /\ GenFresh
       /\ ExIdle
       /\ StepIdle
       /\ AdapterIdle
       /\ ParseIdle
       /\ LifeIdle
    \/ /\ doc \in HandlerDocs \cup OtherDocs
       /\ llm_output = RenderDoc(doc)
       /\ has_callback \in BOOLEAN
       /\ pc = "parse"
       /\ ParseFresh
       /\ ExIdle
       /\ StepIdle
       /\ AdapterIdle
       /\ GenIdle
       /\ HandlerBuilt

BoundedNext == FallbackNext \/ RecoveryNext

\* The step of ExtractionPass, told by what it does to passes: the only
\* step that appends to passes, taken whenever the loop is at a pass.
PassTaken == pc = "pass" /\ passes' = Append(passes, raw_json)

\* The call of the callback returns or raises.
CallbackEnds == CallbackReturns \/ CallbackFails

SpecBounded ==
    /\ BoundedInit
    /\ [][BoundedNext]_vars
    /\ WF_vars(FallbackNext)
    /\ WF_vars(ParseWithRetryCall)
    /\ WF_passes(PassTaken)
    /\ WF_vars(CallbackEnds)

(***************************************************************************)
(* TestGenerator.resolve_step.  A step text is a sequence of words, with   *)
(* whitespace tokens where the text has leading or trailing blanks; a      *)
(* pattern is a sequence of words too, "\d+" standing for the group        *)
(* (\d+).  Every field of a step definition is a sequence of tokens.       *)
(***************************************************************************)
\* A tuple of fields, or a dict, whose items are <<key, value>>.
Tuple(fields) == [kind |-> "tuple", items |-> fields]
Dict(pairs) == [kind |-> "dict", items |-> pairs]

LOGIN_STEPS ==
    <<Tuple(<<<<"navigate", "to", "login", "page">>, <<"page.goto(login url)">>>>),
      Tuple(<<<<"enter", "valid", "username">>, <<"login.enter_username(valid)">>>>),
      Tuple(<<<<"enter", "valid", "password">>, <<"login.enter_password(valid)">>>>),
      Tuple(<<<<"enter", "invalid", "password">>, <<"login.enter_password(invalid)">>>>),
      Tuple(<<<<"click", "login", "button">>, <<"login.click_login()">>>>)>>

PRODUCT_STEPS ==
    <<Dict(<<<<<<"pattern">>, <<"add", "first", "product", "to", "cart">>>>,
             <<<<"page">>, <<"ProductPage">>>>,
             <<<<"action">>, <<"add_first_product">>>>>>),
      Dict(<<<<<<"pattern">>, <<"cart", "badge", "should", "show", "\\d+">>>>,
             <<<<"page">>, <<"ProductPage">>>>,
             <<<<"assert">>, <<"expect(cart_badge).to_have_text">>>>>>)>>

\* ALL_STEPS = LOGIN_STEPS + PRODUCT_STEPS
ALL_STEPS == LOGIN_STEPS \o PRODUCT_STEPS

\* str.lower on a word.
Lower(word) ==
    CASE word = "Navigate" -> "navigate"
      [] word = "LOGIN" -> "login"
      [] word = "Add" -> "add"
      [] word = "Cart" -> "cart"
      [] word = "Pattern" -> "pattern"
      [] OTHER -> word

LowerText(text) == [i \in 1..Len(text) |-> Lower(text[i])]

\* len(step_def), and what "a, b, c = step_def" binds: the fields of a
\* tuple, the keys of a dict.
Unpack(step_def) ==
    IF step_def.kind = "tuple" THEN step_def.items
    ELSE [i \in 1..Len(step_def.items) |-> step_def.items[i][1]]

\* re.search(pattern, step_text): the positions where the pattern matches.
MatchesAt(pattern, text, k) ==
    /\ k + Len(pattern) - 1 <= Len(text)
    /\ \A i \in 1..Len(pattern) :
          IF pattern[i] = "\\d+" THEN text[k + i - 1] \in Digits
          ELSE text[k + i - 1] = pattern[i]

Search(pattern, text) == {k \in 1..Len(text) : MatchesAt(pattern, text, k)}

\* list(match.groups()) of the leftmost match.
Groups(pattern, text) ==
    LET k == Min(Search(pattern, text))
        at == {i \in 1..Len(pattern) : pattern[i] = "\\d+"}
    IN  IF at = {} THEN <<>> ELSE <<text[k + Min(at) - 1]>>

Raised(exception) == [kind |-> "raised", exception |-> exception]

\* The dict returned for a match.
Resolved(page, action, assertion, args, raw_code) ==
    [kind |-> "resolved", page |-> page, action |-> action,
     assertion |-> assertion, args |-> args, raw_code |-> raw_code]

\* The for loop of resolve_step from definition n on.
RECURSIVE ResolveFrom(_, _, _)
ResolveFrom(step_defs, text, n) ==
    IF n > Len(step_defs) THEN Raised("ValueError: No step definition found")
    ELSE LET d == Unpack(step_defs[n])
             found == Search(d[1], text) # {}
         IN  CASE Len(d) = 4 ->
                    IF found
                    THEN Resolved(d[2], d[3], d[4], Groups(d[1], text), <<>>)
                    ELSE ResolveFrom(step_defs, text, n + 1)
               [] Len(d) = 2 ->
                    IF found THEN Resolved(<<>>, <<>>, <<>>, <<>>, d[2])
                    ELSE ResolveFrom(step_defs, text, n + 1)
               [] Len(d) = 3 ->
                    IF found THEN Resolved(<<>>, <<>>, d[3], <<>>, d[2])
                    ELSE ResolveFrom(step_defs, text, n + 1)
               [] OTHER -> Raised("ValueError: Invalid step definition format")

\* A step as the caller passes it: a string, or a value of another type.
StepString(text) == [type |-> "str", text |-> text]
NotAString == [type |-> "int", text |-> <<"3">>]

ResolveStep(step, step_defs) ==
    IF step.type # "str" THEN Raised("TypeError: Step must be string")
    ELSE IF Strip(step.text) \in {<<LS>>, <<RS>>, <<LB>>, <<RB>>, <<COMMA>>, <<>>}
    THEN Raised("ValueError: Ignoring invalid step token")
    ELSE ResolveFrom(step_defs, Strip(LowerText(Strip(step.text))), 1)

\* The steps an LLM writes: the phrases of the step maps and others, alone,
\* after or before other words, with capitals and with blanks around.
Phrases ==
    {<<"navigate", "to", "login", "page">>, <<"Navigate", "to", "LOGIN", "page">>,
     <<"enter", "valid", "username">>, <<"enter", "valid", "password">>,
     <<"enter", "invalid", "password">>, <<"click", "login", "button">>,
     <<"click", "LOGIN", "button">>,
     <<"add", "first", "product", "to", "cart">>,
     <<"Add", "first", "product", "to", "Cart">>,
     <<"cart", "badge", "should", "show", "2">>,
     <<"cart", "badge", "should", "show", "many">>,
     <<"open", "the", "menu">>, <<"pattern">>, <<"enter", "valid">>,
     <<LS>>, <<COMMA>>, <<>>}

Befores == {<<>>, <<SP>>, <<"then">>, <<"match", "the", "Pattern", "and">>,
            <<"click", "login", "button", "then">>}
Afters == {<<>>, <<SP, NL>>, <<"now">>, <<"then", "enter", "valid", "username">>}

StepTexts ==
    {StepString(b \o ph \o a) : b \in Befores, ph \in Phrases, a \in Afters}
        \cup {NotAString}

\* Definitions of the other formats, for the step_definitions argument.
CustomSteps ==
    <<Tuple(<<<<"cart", "badge", "should", "show", "\\d+">>, <<"ProductPage">>,
              <<"cart_badge">>, <<"to_have_text">>>>),
      Tuple(<<<<"open", "the", "menu">>, <<"menu.open()">>, <<"menu is open">>>>),
      Tuple(<<<<"enter">>>>)>>

StepsInit ==
    /\ step_text \in StepTexts
    /\ step_definitions \in {ALL_STEPS, CustomSteps}
    /\ step_pc = "call"
    /\ resolved = <<>>
    /\ ExIdle
    /\ ParseIdle
    /\ GenIdle
    /\ LifeIdle
    /\ AdapterIdle

ResolveStepCall ==
    /\ step_pc = "call"
    /\ resolved' = ResolveStep(step_text, step_definitions)
    /\ step_pc' = "done"
    /\ UNCHANGED <<step_text, step_definitions, exVars, parseVars, genVars,
                   lifeVars, adapterVars>>

SpecSteps == StepsInit /\ [][ResolveStepCall]_vars

(***************************************************************************)
(* LLMClient.generate_with_ollama inside generate_with_fallback.  Time is  *)
(* counted in sleep intervals (0.5 s): a failed poll of a wait loop takes   *)
(* one interval or more (the sleep, and up to 1 s for the probe).  A model *)
(* name is the sequence of its parts between colons: <<"llama3">>,         *)
(* <<"llama3", "latest">>.  What the machine answers to a probe, a list, a *)
(* pull or a generation is the environment's choice at each call.          *)
(***************************************************************************)
MaxTimeout == 2
\* The intervals a failed poll can take.
PollIntervals == {1, 2}

ModelNames == {<<"llama3">>, <<"llama3", "latest">>, <<"llama3", "8b">>}
RequestedModels == {<<"llama3">>, <<"llama3", "8b">>, <<"phi">>}

\* ollama.list(): the installed models, each once, in the server's order.
ModelLists ==
    {l \in SeqsUpTo(ModelNames, 2) : \A i, j \in 1..Len(l) : i # j => l[i] # l[j]}

\* m.startswith(requested_model + ":")
HasTag(name, requested) ==
    /\ Len(name) > Len(requested)
    /\ SubSeq(name, 1, Len(requested)) = requested

\* One entry of what generate_with_ollama did: the step, the intervals the
\* running wait loop had waited, and the model name and list it concerns.
Event(ev, at, name, models) == [ev |-> ev, at |-> at, name |-> name, models |-> models]
Did(ev) == Event(ev, 0, <<>>, <<>>)

\* The exception of the failed stage leaves the adapter as it is, without
\* the labelled wrapper.
RawCause(cause) ==
    [kind |-> "error", label |-> cause, suggests |-> {}, cause |-> cause]

\* except Exception as e: raise RuntimeError("Ollama is not functional. You
\* may switch to another AI provider: openai, deepseek, or gemini. Root
\* cause: {e}")
NotFunctional(cause) ==
    [kind |-> "error", label |-> "Ollama is not functional",
     suggests |-> {"openai", "deepseek", "gemini"}, cause |-> cause]

NoAdapterResult == [kind |-> "none", label |-> "", suggests |-> {}, cause |-> ""]
OllamaText == [kind |-> "text", label |-> "", suggests |-> {}, cause |-> ""]

\* The wait loop waits whatever time has gone by.
LoopGoesOnPastTimeout(elapsed, timeout) == elapsed <= timeout

\* while time.time() - start < timeout
LoopGoesOn(elapsed, timeout) == elapsed < timeout

\* The last model of the list with the tag is taken.
LastTagged(installed, requested) ==
    LET tagged == {i \in 1..Len(installed) : HasTag(installed[i], requested)}
    IN  IF tagged = {} THEN <<>> ELSE installed[Max(tagged)]

\* tagged = [m for m in installed if m.startswith(requested_model + ":")];
\* tagged[0], <<>> when tagged is empty.
FirstTagged(installed, requested) ==
    LET tagged == {i \in 1..Len(installed) : HasTag(installed[i], requested)}
    IN  IF tagged = {} THEN <<>> ELSE installed[Min(tagged)]

\* The re-check after the pull: the first name that is the requested one or
\* tag-suffixed from it; <<>> when there is none.
FirstVisible(installed, requested) ==
    LET seen == {i \in 1..Len(installed) :
                    installed[i] = requested \/ HasTag(installed[i], requested)}
    IN  IF seen = {} THEN <<>> ELSE installed[Min(seen)]

\* An exception inside the try block of generate_with_ollama.
OllamaRaises(ev, cause) ==
    /\ ollama_log' = Append(ollama_log, Event(ev, waited, <<>>, <<>>))
    /\ ollama_result' = NotFunctional(cause)
    /\ ollama_pc' = "failed"
    /\ UNCHANGED <<ollama_cfg, ollama_env, waited>>

\* A step of the try block that goes on at another position.
OllamaGoes(ev, position, elapsed) ==
    /\ ollama_log' = Append(ollama_log, Event(ev, waited, <<>>, <<>>))
    /\ ollama_pc' = position
    /\ waited' = elapsed
    /\ UNCHANGED <<ollama_cfg, ollama_env, ollama_result>>

\* What no step of generate_with_ollama changes.
OllamaFrame ==
    UNCHANGED <<cfg_before, gemini_cfg, gemini_log, gemini_result, genVars,
                exVars, parseVars, lifeVars, stepVars>>

\* generate_with_fallback reaches "return self.generate_with_ollama(...)":
\* cfg = self.ollama_cfg(); requested_model = cfg["model"]
OllamaEnters ==
    /\ gen_pc = "loop" /\ idx <= Len(providers)
    /\ providers[idx] = "ollama"
    /\ ollama_pc = "idle"
    /\ requested_model' = ollama_cfg.model
    /\ OllamaGoes("enter", "install", 0)
    /\ OllamaFrame

\* ensure_ollama_ready: if not self.is_ollama_installed(): raise
IsOllamaInstalled ==
    /\ ollama_pc = "install"
    /\ IF ollama_env.cli THEN OllamaGoes("installed", "running", 0)
       ELSE OllamaRaises("not_installed", "Ollama is not installed")
    /\ UNCHANGED requested_model
    /\ OllamaFrame

\* if not self.is_ollama_running(): start_ollama_server() up to Popen and
\* start_time = time.time()
IsOllamaRunning ==
    /\ ollama_pc = "running"
    /\ \/ OllamaGoes("running", "health", 0)
       \/ /\ ollama_log' = ollama_log \o <<Did("unreachable"), Did("spawn")>>
          /\ ollama_pc' = "starting"
          /\ waited' = 0
          /\ UNCHANGED <<ollama_cfg, ollama_env, ollama_result>>
    /\ UNCHANGED requested_model
    /\ OllamaFrame

\* One turn of the wait loop of start_ollama_server, or its end.
StartOllamaServer ==
    /\ ollama_pc = "starting"
    /\ IF LoopGoesOn(waited, ollama_cfg.startup_timeout)
       THEN \/ OllamaGoes("reachable", "health", 0)
            \/ \E d \in PollIntervals : OllamaGoes("poll_unreachable", "starting", waited + d)
       ELSE OllamaRaises("start_timeout", "Ollama server failed to start")
    /\ UNCHANGED requested_model
    /\ OllamaFrame

\* One turn of the healthcheck loop of ensure_ollama_ready, or its end.
OllamaHealthcheck ==
    /\ ollama_pc = "health"
    /\ IF LoopGoesOn(waited, ollama_cfg.startup_timeout)
       THEN \/ OllamaGoes("healthy", "model", 0)
            \/ \E d \in PollIntervals : OllamaGoes("poll_unhealthy", "health", waited + d)
       ELSE OllamaRaises("health_timeout", "Ollama server failed healthcheck")
    /\ UNCHANGED requested_model
    /\ OllamaFrame

\* The model is resolved: resolved_model is stored in the configuration.
ModelResolved(ev, name) ==
    /\ ollama_log' = Append(ollama_log, Event(ev, 0, name, ollama_env'.models))
    /\ ollama_cfg' = [ollama_cfg EXCEPT !.model = name]
    /\ ollama_pc' = "generate"
    /\ UNCHANGED <<ollama_result, waited>>

\* ensure_model_exists up to the pull: the list, the exact match, the tag
\* resolution.
EnsureModelExists ==
    /\ ollama_pc = "model"
    /\ \/ OllamaRaises("list_failed", "Ollama server is not responding")
       \/ /\ UNCHANGED ollama_env
          /\ LET installed == ollama_env.models IN
             IF InSeq(requested_model, installed)
             THEN ModelResolved("exact", requested_model)
             ELSE IF FirstTagged(installed, requested_model) # <<>>
             THEN ModelResolved("tagged", FirstTagged(installed, requested_model))
             ELSE /\ ollama_log' = Append(ollama_log,
                                          Event("missing", 0, <<>>, installed))
                  /\ ollama_pc' = "pull"
                  /\ UNCHANGED <<ollama_cfg, ollama_result, waited>>
    /\ UNCHANGED requested_model
    /\ OllamaFrame

\* What the server lists after a pull: the models it had, and possibly the
\* pulled one, under the requested name or with the tag the server gave it.
AfterPull(installed, requested) ==
    {installed, Append(installed, requested),
     Append(installed, Append(requested, "latest"))}

\* ollama.pull(requested_model) and the re-check after it.
PullModel ==
    /\ ollama_pc = "pull"
    /\ \/ /\ OllamaRaises("pull_failed", "Ollama model could not be pulled")
       \/ /\ ollama_log' = Append(ollama_log, Event("pulled", 0, <<>>, <<>>))
          /\ ollama_result' = NotFunctional("Ollama became unavailable after pull")
          /\ ollama_pc' = "failed"
          /\ \E l \in AfterPull(ollama_env.models, requested_model) :
                ollama_env' = [ollama_env EXCEPT !.models = l]
          /\ UNCHANGED <<ollama_cfg, waited>>
       \/ \E l \in AfterPull(ollama_env.models, requested_model) :
            /\ ollama_env' = [ollama_env EXCEPT !.models = l]
            /\ IF FirstVisible(l, requested_model) # <<>>
               THEN ModelResolved("pulled", FirstVisible(l, requested_model))
               ELSE /\ ollama_log' = Append(ollama_log, Event("pulled", 0, <<>>, l))
                    /\ ollama_result' =
                          NotFunctional("Ollama pull completed but model still not visible")
                    /\ ollama_pc' = "failed"
                    /\ UNCHANGED <<ollama_cfg, waited>>
    /\ UNCHANGED requested_model
    /\ OllamaFrame

\* ollama.generate(model=resolved_model, ...): return response["response"]
OllamaGenerate ==
    /\ ollama_pc = "generate"
    /\ \/ /\ ollama_log' = Append(ollama_log, Did("generate"))
          /\ ollama_result' = OllamaText
          /\ ollama_pc' = "returned"
          /\ UNCHANGED <<ollama_cfg, ollama_env, waited>>
       \/ /\ ollama_log' = Append(ollama_log, Did("generate"))
          /\ ollama_result' = NotFunctional("generation failed")
          /\ ollama_pc' = "failed"
          /\ UNCHANGED <<ollama_cfg, ollama_env, waited>>
    /\ UNCHANGED requested_model
    /\ OllamaFrame

\* The bookkeeping of generate_with_fallback for an adapter that returned
\* (message "ok") or raised: "return ..." or "errors[provider] = str(e)".
AdapterEnded(provider, message) ==
    /\ invocations' = Append(invocations, [provider |-> provider, result |-> message])
    /\ IF message = "ok"
       THEN /\ gen_result' = [NoResult EXCEPT !.kind = "text", !.provider = provider,
                                              !.text = Output(provider)]
            /\ gen_pc' = "done"
            /\ UNCHANGED <<idx, errors>>
       ELSE /\ errors' = RecordError(errors, provider, message)
            /\ idx' = NextProvider(idx)
            /\ UNCHANGED <<gen_result, gen_pc>>
    /\ UNCHANGED <<models_cfg, preferred_provider, providers>>

\* generate_with_ollama returned or raised to generate_with_fallback.
OllamaEnds ==
    /\ ollama_pc \in {"returned", "failed"}
    /\ gen_pc = "loop" /\ idx <= Len(providers)
    /\ providers[idx] = "ollama"
    /\ AdapterEnded("ollama", IF ollama_pc = "returned" THEN "ok" ELSE ollama_result.label)
    /\ ollama_pc' = "left"
    /\ UNCHANGED <<ollama_cfg, cfg_before, ollama_env, requested_model, waited,
                   ollama_log, ollama_result, gemini_cfg, gemini_log, gemini_result,
                   exVars, parseVars, lifeVars, stepVars>>

(***************************************************************************)
(* LLMClient.generate_with_gemini.  A response of requests.post is its     *)
(* status and what its body holds; status 0 stands for no response (a      *)
(* connection error or the timeout).                                        *)
(***************************************************************************)
GeminiStatuses == {200, 400, 401, 403, 404, 429, 500, 503}
GeminiBodies == {"candidates", "no_candidates", "not_json"}
GeminiResponses ==
    [status : GeminiStatuses \ {200}, body : {"not_json"}]
        \cup [status : {200}, body : GeminiBodies]
        \cup {[status |-> 0, body |-> "not_json"]}

GeminiError(message) == [kind |-> "error", label |-> message, suggests |-> {}, cause |-> message]
GeminiText == [kind |-> "text", label |-> "", suggests |-> {}, cause |-> ""]

GenericRequestError == "Gemini generation failed: Network or request error"

\* response.raise_for_status() is called before the three statuses are
\* looked at.
GeminiOutcomesStatusLast(has_key, response) ==
    IF ~has_key THEN {GeminiError("Gemini API key is missing")}
    ELSE IF response.status = 0 \/ response.status >= 400
    THEN {GeminiError(GenericRequestError)}
    ELSE {GeminiText}

\* The results generate_with_gemini can end with on a response.  A body
\* that is not JSON makes response.json() raise an exception that is a
\* requests.RequestException in the newer versions of the library and a
\* plain ValueError in the older ones; a body without candidates raises
\* KeyError.  Both leave the adapter unwrapped.
GeminiOutcomes(has_key, response) ==
    IF ~has_key THEN {GeminiError("Gemini API key is missing")}
    ELSE IF response.status = 0 THEN {GeminiError(GenericRequestError)}
    ELSE IF response.status = 401
    THEN {GeminiError("Gemini API key is invalid or unauthorized")}
    ELSE IF response.status = 404
    THEN {GeminiError("Gemini model not found or endpoint invalid")}
    ELSE IF response.status = 429
    THEN {GeminiError("Gemini quota exceeded or rate-limited")}
    ELSE IF response.status >= 400 /\ response.status < 600
    THEN {GeminiError(GenericRequestError)}
    ELSE CASE response.body = "candidates" -> {GeminiText}
           [] response.body = "no_candidates" -> {GeminiError("KeyError: candidates")}
           [] OTHER -> {GeminiError(GenericRequestError),
                        GeminiError("ValueError: not JSON")}

\* generate_with_fallback calls generate_with_gemini, which returns or
\* raises.
GeminiCall ==
    /\ gen_pc = "loop" /\ idx <= Len(providers)
    /\ providers[idx] = "gemini"
    /\ \E response \in GeminiResponses :
         \E result \in GeminiOutcomes(gemini_cfg.api_key, response) :
            /\ gemini_log' = IF gemini_cfg.api_key THEN Append(gemini_log, response)
                             ELSE gemini_log
            /\ gemini_result' = result
            /\ AdapterEnded("gemini", IF result.kind = "text" THEN "ok" ELSE result.label)
    /\ UNCHANGED <<ollama_cfg, cfg_before, ollama_env, requested_model, ollama_pc,
                   waited, ollama_log, ollama_result, gemini_cfg,
                   exVars, parseVars, lifeVars, stepVars>>

(***************************************************************************)
(* generate_with_fallback over the adapters: those of ollama and gemini as *)
(* above, those of openai and deepseek cut at their return.                 *)
(***************************************************************************)
HostedChat == {"openai", "deepseek"}

HostedChatReturns ==
    /\ gen_pc = "loop" /\ idx <= Len(providers)
    /\ providers[idx] \in HostedChat
    /\ AdapterReturns

HostedChatFails ==
    /\ gen_pc = "loop" /\ idx <= Len(providers)
    /\ providers[idx] \in HostedChat
    /\ AdapterFails

Flags(on) == [p \in KnownProviders |-> IF p \in on THEN "true" ELSE "false"]

\* The machine and the configuration of the local model server.
OllamaSetups ==
    [cfg : [model : RequestedModels, startup_timeout : 0..MaxTimeout],
     env : [cli : BOOLEAN, models : ModelLists]]

\* A run of generate_with_ollama alone in its variety, a run of
\* generate_with_gemini alone, and runs over all four providers.
ClientInit ==
    /\ \E on \in {{"ollama"}, {"gemini"}, KnownProviders} :
        /\ models_cfg = [enabled |-> Flags(on), preferred |-> None]
        /\ \E setup \in OllamaSetups :
            /\ on # {"ollama"} =>
                  /\ setup.cfg = [model |-> <<"llama3">>, startup_timeout |-> 1]
                  /\ setup.env.cli
                  /\ setup.env.models \in {<<>>, << <<"llama3", "latest">> >>}
            /\ ollama_cfg = setup.cfg
            /\ ollama_env = setup.env
        /\ preferred_provider \in
              IF on = KnownProviders THEN {None, "gemini", "deepseek"} ELSE {None}
    /\ cfg_before = ollama_cfg
    /\ gemini_cfg \in [api_key : BOOLEAN]
    /\ gen_pc = "call"
    /\ GenFresh
    /\ requested_model = <<>>
    /\ ollama_pc = "idle"
    /\ waited = 0
    /\ ollama_log = <<>>
    /\ ollama_result = NoAdapterResult
    /\ gemini_log = <<>>
    /\ gemini_result = NoAdapterResult
    /\ ExIdle
    /\ StepIdle
    /\ ParseIdle
    /\ LifeIdle

ClientNext ==
    \/ GenerateCall
    \/ OllamaEnters
    \/ IsOllamaInstalled
    \/ IsOllamaRunning
    \/ StartOllamaServer
    \/ OllamaHealthcheck
    \/ EnsureModelExists
    \/ PullModel
    \/ OllamaGenerate
    \/ OllamaEnds
    \/ GeminiCall
    \/ HostedChatReturns
    \/ HostedChatFails
    \/ AllProvidersFailed

SpecClient == ClientInit /\ [][ClientNext]_vars

UiRequiredKeys ==
    {<<"test_id">>, <<"description">>, <<"steps">>, <<"expected_result">>}
ApiRequiredKeys ==
    {<<"test_id">>, <<"method">>, <<"url">>, <<"expected_status">>}
HasAllUiKeys(item) == UiRequiredKeys \subseteq DOMAIN item
HasAllApiKeys(item) == ApiRequiredKeys \subseteq DOMAIN item

\* The objects of the well-formed items placed in an array.
ObjectsIn(items) ==
    {Loads(items[n].text) : n \in {m \in 1..Len(items) : items[m].wf}}

Returned == pc \in {"filter", "done"} /\ outcome # "empty_input"

FirstPassEmpty ==
    /\ ExtractArray(passes[1], "test_cases") = <<>>
    /\ ExtractArray(passes[1], "api_tests") = <<>>

\* C4: every object of the "test_cases" result lies in the array under key
\* "test_cases" and every object of the "api_tests" result lies in the array
\* under key "api_tests", whatever the order of the two keys in the text.
C4_HarvestedPerKey ==
    (Returned /\ doc.kind = "json" /\ cb_args = <<>>) =>
        /\ \A n \in 1..Len(parsed.test_cases) :
               parsed.test_cases[n] \in ObjectsIn(doc.ui)
        /\ \A n \in 1..Len(parsed.api_tests) :
               parsed.api_tests[n] \in ObjectsIn(doc.api)

\* C5: the continuation callback is invoked at most once, and exactly when
\* the first pass left both lists empty and a callback was supplied; it is
\* given the text of the first pass; a second pass after it runs on
\* rstrip(original) + newline + lstrip(continuation); there are never more
\* than two passes, and none after a callback that failed.
C5_CallbackOnce ==
    /\ Len(cb_args) <= 1
    /\ Len(passes) <= 2
    /\ Len(cb_rets) = Len(cb_args)
    /\ cb_args # <<>> =>
           /\ has_callback
           /\ passes # <<>>
           /\ cb_args[1] = passes[1]
           /\ FirstPassEmpty
    /\ (Returned /\ has_callback /\ FirstPassEmpty) => Len(cb_args) = 1
    /\ (Len(passes) = 2 /\ has_callback) =>
           /\ Len(cb_rets) = 1
           /\ cb_rets[1].kind = "text"
           /\ passes[2] = RStrip(passes[1]) \o <<NL>> \o LStrip(cb_rets[1].text)
    /\ (cb_rets # <<>> /\ cb_rets[1].kind # "text") => Len(passes) = 1

\* C5's case: the callback returned a text with leading whitespace and the
\* second pass ran and ended the call.
C5_Witness ==
    /\ pc = "done"
    /\ Len(passes) = 2
    /\ Len(cb_args) = 1
    /\ cb_rets[1].kind = "text"
    /\ cb_rets[1].text # <<>>
    /\ Head(cb_rets[1].text) \in Whitespace

\* C9: the filtering keeps a parsed record iff it has every required field
\* of its category, in the extracted order and unmodified, and only the kept
\* records are handed to the sheet writer.
C9_FilterKeepsExactlyValid ==
    pc = "done" /\ outcome \in {"ok", "no_valid"} =>
        /\ kept.test_cases = SelectSeq(parsed.test_cases, HasAllUiKeys)
        /\ kept.api_tests = SelectSeq(parsed.api_tests, HasAllApiKeys)
        /\ outcome = "ok" =>
               /\ sheets[1].rows = kept.test_cases
               /\ sheets[2].rows = kept.api_tests
        /\ outcome = "no_valid" => sheets = <<>>

\* C9's case: a parsed UI record without expected_result and a parsed API
\* record without method were dropped while other records were written.
C9_Witness ==
    /\ pc = "done"
    /\ outcome = "ok"
    /\ \E n \in 1..Len(parsed.test_cases) :
           /\ <<"test_id">> \in DOMAIN parsed.test_cases[n]
           /\ <<"description">> \in DOMAIN parsed.test_cases[n]
           /\ <<"expected_result">> \notin DOMAIN parsed.test_cases[n]
    /\ \E n \in 1..Len(parsed.api_tests) :
           /\ <<"url">> \in DOMAIN parsed.api_tests[n]
           /\ <<"method">> \notin DOMAIN parsed.api_tests[n]
    /\ kept.test_cases # <<>>
    /\ kept.api_tests # <<>>

Calls(p) == Cardinality({n \in 1..Len(invocations) : invocations[n].provider = p})

\* The provider's adapter was called and raised.
Failed(p) ==
    \E n \in 1..Len(invocations) :
        invocations[n].provider = p /\ invocations[n].result \in ErrorMessages

\* The position of a member of the resolved order.
Position(p) == CHOOSE n \in 1..Len(providers) : providers[n] = p

\* The configuration enables the name: its flag is not false.
EnabledInConfig(p) == p \notin KnownProviders \/ models_cfg.enabled[p] # "false"

\* C2 as stated: the text returned is that of the first provider of the
\* resolved order that succeeds, every member of the order before it was
\* invoked exactly once and failed, and no member after it was invoked.
C2_Original ==
    (gen_pc = "done" /\ gen_result.kind = "text") =>
        /\ InSeq(gen_result.provider, providers)
        /\ gen_result.text = Output(gen_result.provider)
        /\ \A n \in 1..Len(providers) :
               /\ n < Position(gen_result.provider) =>
                      Calls(providers[n]) = 1 /\ Failed(providers[n])
               /\ n > Position(gen_result.provider) => Calls(providers[n]) = 0

\* C2, amended: as stated for the four known providers; a name of the order
\* that is none of them is skipped without a call.
C2_FirstSuccessWins ==
    (gen_pc = "done" /\ gen_result.kind = "text") =>
        /\ InSeq(gen_result.provider, providers)
        /\ gen_result.text = Output(gen_result.provider)
        /\ Calls(gen_result.provider) = 1
        /\ invocations[Len(invocations)] = [provider |-> gen_result.provider, result |-> "ok"]
        /\ \A n \in 1..Len(providers) :
               /\ (n < Position(gen_result.provider) /\ providers[n] \in KnownProviders) =>
                      Calls(providers[n]) = 1 /\ Failed(providers[n])
               /\ providers[n] \notin KnownProviders => Calls(providers[n]) = 0
               /\ n > Position(gen_result.provider) => Calls(providers[n]) = 0

\* C2's case: the first two providers failed, the third returned and a
\* fourth was left untried.
C2_Witness ==
    /\ gen_pc = "done"
    /\ gen_result.kind = "text"
    /\ Len(providers) = 4
    /\ gen_result.provider = providers[3]
    /\ Len(invocations) = 3
    /\ Calls(providers[4]) = 0

\* C3 as stated: when every candidate fails, the aggregate failure names
\* every member of the resolved order, each with its own error message.
C3_Original ==
    (gen_pc = "done" /\ gen_result.kind = "error") =>
        \A n \in 1..Len(providers) :
            \E k \in 1..Len(gen_result.report) :
                /\ gen_result.report[k][1] = providers[n]
                /\ \E i \in 1..Len(invocations) :
                       invocations[i] = [provider |-> providers[n],
                                         result |-> gen_result.report[k][2]]

\* C3, amended: the aggregate failure is raised only after every known
\* provider of the resolved order was called once and failed; its report
\* holds one line per such provider, in the order tried, each with the
\* error that provider raised; a name that is none of the four known
\* providers has no line.
C3_AggregateNamesKnown ==
    (gen_pc = "done" /\ gen_result.kind = "error") =>
        /\ Len(gen_result.report) = Len(invocations)
        /\ \A k \in 1..Len(invocations) :
               /\ invocations[k].result \in ErrorMessages
               /\ gen_result.report[k] = <<invocations[k].provider, invocations[k].result>>
        /\ \A n \in 1..Len(providers) :
               IF providers[n] \in KnownProviders
               THEN Calls(providers[n]) = 1
               ELSE \A k \in 1..Len(gen_result.report) :
                        gen_result.report[k][1] # providers[n]

\* C3's case: four providers failed, not all with the same error.
C3_Witness ==
    /\ gen_pc = "done"
    /\ gen_result.kind = "error"
    /\ Len(gen_result.report) = 4
    /\ gen_result.report[1][2] # gen_result.report[4][2]

PreferredFirst == preferred_provider # None /\ EnabledInConfig(preferred_provider)

ConfiguredNext ==
    /\ models_cfg.preferred \notin {None, "auto"}
    /\ EnabledInConfig(models_cfg.preferred)
    /\ ~(PreferredFirst /\ models_cfg.preferred = preferred_provider)

\* The names the two preferences placed.
Placed ==
    (IF PreferredFirst THEN {preferred_provider} ELSE {})
        \cup (IF ConfiguredNext THEN {models_cfg.preferred} ELSE {})

RemainingDefault(p) == EnabledInConfig(p) /\ p \notin Placed

\* C6: the resolved order is the explicit preferred provider when enabled,
\* then the configured preferred provider when it is not "auto", enabled and
\* not already present, then the remaining enabled defaults in the order
\* ollama, gemini, openai, deepseek; preferred gemini with configured ollama
\* and all enabled gives gemini, ollama, openai, deepseek.
C6_OrderResolution ==
    gen_pc \in {"loop", "done"} =>
        /\ providers =
               (IF PreferredFirst THEN <<preferred_provider>> ELSE <<>>)
               \o (IF ConfiguredNext THEN <<models_cfg.preferred>> ELSE <<>>)
               \o SelectSeq(<<"ollama", "gemini", "openai", "deepseek">>, RemainingDefault)
        /\ (/\ preferred_provider = "gemini"
            /\ models_cfg.preferred = "ollama"
            /\ \A p \in KnownProviders : models_cfg.enabled[p] # "false")
           => providers = <<"gemini", "ollama", "openai", "deepseek">>

\* C6's case: the example, resolved.
C6_Witness ==
    /\ gen_pc = "loop"
    /\ preferred_provider = "gemini"
    /\ models_cfg.preferred = "ollama"
    /\ \A p \in KnownProviders : models_cfg.enabled[p] = "true"
    /\ providers = <<"gemini", "ollama", "openai", "deepseek">>

DefaultIndex(p) ==
    CHOOSE n \in 1..4 : <<"ollama", "gemini", "openai", "deepseek">>[n] = p

C8_DisabledNeverInvoked ==
    /\ \A n \in 1..Len(invocations) :
           models_cfg.enabled[invocations[n].provider] # "false"
    /\ \A n \in 1..Len(providers) : EnabledInConfig(providers[n])
    /\ gen_pc \in {"loop", "done"} =>
           \A p \in KnownProviders :
               models_cfg.enabled[p] = "unset" => InSeq(p, providers)

\* C8's case: the explicit and the configured preferred providers are both
\* disabled, and a provider without the flag was invoked.
C8_Witness ==
    /\ gen_pc = "done"
    /\ preferred_provider \in KnownProviders
    /\ models_cfg.enabled[preferred_provider] = "false"
    /\ models_cfg.preferred \in KnownProviders
    /\ models_cfg.preferred # preferred_provider
    /\ models_cfg.enabled[models_cfg.preferred] = "false"
    /\ \E n \in 1..Len(invocations) :
           models_cfg.enabled[invocations[n].provider] = "unset"

(***************************************************************************)
(* Claims about the artifact: SpecHandler, SpecParse.                       *)
(***************************************************************************)
Categories == {"test_cases", "api_tests"}
IdKey == <<"test_id">>

\* The test ids of a list of records, and of the rows of a worksheet.
IdsOf(rows) == [i \in 1..Len(rows) |-> rows[i][IdKey]]

OkCalls(n) == {j \in 1..n : calls[j].outcome = "ok"}
\* The last successful call among the first n.
LastOk(n) == Max(OkCalls(n))
\* The artifact before call j began.
BookBefore(j) == IF j = 1 THEN Absent ELSE calls[j - 1].book

\* C11: each successful json_to_excel call replaces the artifact: after it
\* the artifact's two tables hold the filtered records of that call, row for
\* row, and no row of an earlier call or of an earlier run; a successful
\* call that repeats an earlier successful call's input (the text, and what
\* the callback returned) leaves the same artifact.
C11_FullReplace ==
    \A j \in OkCalls(Len(calls)) :
        /\ calls[j].book # Absent
        /\ DOMAIN calls[j].book = Categories
        /\ \A s \in Categories :
              IdsOf(calls[j].book[s].cells) = IdsOf(calls[j].kept[s])
        /\ \A i \in OkCalls(j - 1) :
              calls[i].text = calls[j].text /\ calls[i].rets = calls[j].rets
              => calls[j].book = calls[i].book

\* Two successful calls with different records, over a file of an earlier run.
C11_Witness ==
    /\ Len(calls) = 2
    /\ OkCalls(2) = {1, 2}
    /\ IdsOf(calls[1].kept.test_cases) # IdsOf(calls[2].kept.test_cases)
    /\ calls[1].kept.api_tests # <<>>
    /\ calls[2].kept.api_tests = <<>>
    /\ fs # NoFiles /\ DOMAIN fs # {output_path}

\* The text is empty or holds whitespace only.
OnlyWhitespace(text) == \A i \in 1..Len(text) : text[i] \in Whitespace

NoneValid(items, keys) == \A i \in 1..Len(items) : ~(keys \subseteq DOMAIN items[i])

\* C12: a json_to_excel call fails with "no valid records" if and only if
\* its input is not blank and no parsed object of either list has all the
\* required fields of its category; when some object has, the call succeeds
\* and returns the output path.
C12_NoValidIff ==
    pc = "done" =>
        LET none == /\ NoneValid(parsed.test_cases, UiRequiredKeys)
                    /\ NoneValid(parsed.api_tests, ApiRequiredKeys)
        IN  /\ outcome = "no_valid" <=> (~OnlyWhitespace(llm_output) /\ none)
            /\ ~none => /\ outcome = "ok"
                        /\ calls[Len(calls)].returned = output_path
                        /\ output_path = <<OUTPUT_DIR, "test_cases", "xlsx">>

\* Objects were harvested and every one of them was filtered out.
C12_Witness ==
    /\ pc = "done"
    /\ outcome = "no_valid"
    /\ parsed.test_cases # <<>>
    /\ parsed.api_tests # <<>>

\* C13: a json_to_excel call on an empty or whitespace-only text fails with
\* "empty input" before any parsing: no extraction pass ran, the callback was
\* not invoked, no sheet was written and the artifact is as it was.
C13_EmptyInputFirst ==
    (pc = "done" /\ OnlyWhitespace(llm_output)) =>
        /\ outcome = "empty_input"
        /\ passes = <<>>
        /\ cb_args = <<>>
        /\ sheets = <<>>
        /\ calls[Len(calls)].book = BookBefore(Len(calls))

\* A whitespace-only text given to a handler that has a callback and an
\* artifact from an earlier call.
C13_Witness ==
    /\ pc = "done"
    /\ llm_output = <<SP, NL>>
    /\ has_callback
    /\ Len(calls) = 2
    /\ calls[1].outcome = "ok"
    /\ Exists(fs, output_path)

\* C14: when exactly one category is empty after filtering, the artifact
\* has both tables, the empty one with the required columns of its category
\* as header, and read_test_cases returns the empty sequence for it.
C14_EmptyTableHasHeaders ==
    /\ \A j \in OkCalls(Len(calls)) :
          /\ DOMAIN calls[j].book = Categories
          /\ calls[j].kept.test_cases = <<>>
             => calls[j].book.test_cases.columns = UiRequiredKeys
          /\ calls[j].kept.api_tests = <<>>
             => calls[j].book.api_tests.columns = ApiRequiredKeys
    /\ read_result.kind = "data" =>
          \A s \in Categories :
              calls[LastOk(read_result.after)].kept[s] = <<>>
              => read_result.data[s] = <<>>

\* The artifact of a call that kept test cases and no API test was read.
C14_Witness ==
    /\ read_result.kind = "data"
    /\ calls[LastOk(read_result.after)].kept.test_cases # <<>>
    /\ calls[LastOk(read_result.after)].kept.api_tests = <<>>
    /\ read_result.data.api_tests = <<>>

\* C15: read_test_cases fails with "not found" exactly when no json_to_excel
\* call of the handler has succeeded before it, whatever was at the path
\* when the handler was constructed.
C15_NotFoundIffNoSuccess ==
    read_result.kind # "unread" =>
        (read_result.kind = "not_found" <=> OkCalls(read_result.after) = {})

\* Not found, where a file of an earlier run was at the path before the
\* handler was constructed, and after a call that failed.
C15_Witness ==
    /\ read_result.kind = "not_found"
    /\ read_result.after = 1
    /\ fs # NoFiles

\* C16: read_test_cases returns the rows in the written order, every field
\* equal to the original value, a field absent from a record read as the
\* empty string.
C16_RoundTrip ==
    read_result.kind = "data" =>
        \A s \in Categories :
            LET original == calls[LastOk(read_result.after)].kept[s]
                back == read_result.data[s]
            IN  /\ Len(back) = Len(original)
                /\ \A i \in 1..Len(back) :
                      /\ DOMAIN original[i] \subseteq DOMAIN back[i]
                      /\ \A c \in DOMAIN back[i] :
                            back[i][c] = IF c \in DOMAIN original[i]
                                         THEN original[i][c] ELSE EmptyString

C18_BoundedRetries ==
    /\ [](\A p \in KnownProviders \cup {UnknownProvider} : Calls(p) <= 1)
    /\ [](Len(passes) <= 2 /\ Len(cb_args) <= 1)
    /\ (gen_pc = "call") ~> (gen_pc = "done" /\ gen_result.kind \in {"text", "error"})
    /\ (pc = "parse") ~> (pc = "filter")

\* Every one of the four providers was invoked, each failed, and the call
\* ended with the aggregate failure.
C18_Witness ==
    /\ gen_pc = "done"
    /\ gen_result.kind = "error"
    /\ Len(invocations) = 4
    /\ \A p \in KnownProviders : Calls(p) = 1

(***************************************************************************)
(* Claims about the framework: SpecFramework.                               *)
(***************************************************************************)
\* The script files generate_executable_tests wrote in a directory.
WrittenIn(dir) == {written[k] : k \in {n \in 1..Len(written) : written[n][1] = dir}}

ScriptsMatch(records, kind, dir) ==
    /\ Cardinality(WrittenIn(dir)) = Len(records)
    /\ \A i \in 1..Len(records) :
          /\ ScriptPath(dir, records[i]) \in WrittenIn(dir)
          /\ fs[ScriptPath(dir, records[i])].kind = kind

\* C19: after generate_executable_tests ran on the records it read, the
\* script files it wrote in a category's directory are as many as the
\* category's records, each record's file test_<lower-cased test_id>.py is
\* among them, and it holds generated code, whatever was at its path.
C19_OneScriptPerRecord ==
    (exec_outcome # "none" /\ read_result.kind = "data") =>
        /\ ScriptsMatch(read_result.data.test_cases, "web", WEB_DIR)
        /\ ScriptsMatch(read_result.data.api_tests, "api", API_DIR)

\* The .xlsx files.
Artifacts == {p \in DOMAIN fs : p[3] = "xlsx"}

\* The records of the i-th call are readable from the artifact at path.
ReadableFrom(path, i) ==
    \A s \in Categories :
        IdsOf(ReadWorkbook(fs[path])[s]) = IdsOf(calls[i].kept[s])

\* C20: after generate_from_requirements_folder has processed its files
\* with success, each file has an artifact of its own (no artifact is that
\* of two files) from which the records produced from the file are readable.
C20_ArtifactPerSource ==
    (/\ file_idx = Len(files)
     /\ Len(calls) = Len(files)
     /\ \A j \in 1..Len(calls) : calls[j].outcome = "ok") =>
        \E art \in [1..Len(files) -> Artifacts] :
            /\ \A i, j \in 1..Len(files) : i # j => art[i] # art[j]
            /\ \A i \in 1..Len(files) : ReadableFrom(art[i], i)

(***************************************************************************)
(* Claims about failing calls, the API generator and the step resolver.    *)
(***************************************************************************)
\* C28: a json_to_excel call that raises the empty-input or the
\* no-valid-records condition leaves the file at the output path as it was
\* before the call: absent, or the book an earlier successful call wrote.
C28_FailureLeavesArtifact ==
    \A j \in 1..Len(calls) :
        calls[j].outcome \in {"empty_input", "no_valid"} =>
            /\ calls[j].book = BookBefore(j)
            /\ calls[j].returned = "None"

\* A successful call, then a call that finds no valid record: the book of
\* the first call is still there; and a first call that fails on empty input.
C28_Witness ==
    /\ Len(calls) = 2
    /\ calls[1].outcome = "ok"
    /\ calls[2].outcome = "no_valid"
    /\ calls[2].text # <<>>
    /\ calls[2].book = calls[1].book
    /\ calls[2].book # Absent
    /\ fs[output_path] = calls[1].book

\* Every provider's section of the configuration has "enabled: false".
AllDisabled == \A p \in KnownProviders : models_cfg.enabled[p] = "false"

\* C29 as stated: with every provider disabled the resolved order is empty,
\* no adapter is invoked and the call ends with the aggregate failure.
C29_Original ==
    (AllDisabled /\ gen_pc # "call") =>
        /\ providers = <<>>
        /\ invocations = <<>>
        /\ gen_pc = "done" => gen_result.kind = "error"

\* C29, amended: with every provider disabled the resolved order holds none
\* of the four providers: it is empty, or holds the preferred names that
\* have no section in the configuration; no adapter is invoked, and the call
\* ends with the aggregate failure, whose report names no provider.
C29_AllDisabled ==
    (AllDisabled /\ gen_pc # "call") =>
        /\ \A n \in 1..Len(providers) :
               /\ providers[n] \notin KnownProviders
               /\ providers[n] \in {preferred_provider, models_cfg.preferred}
        /\ ({preferred_provider, models_cfg.preferred} \subseteq
                KnownProviders \cup {None, "auto"} => providers = <<>>)
        /\ invocations = <<>>
        /\ errors = <<>>
        /\ gen_pc = "done" =>
               gen_result = [NoResult EXCEPT !.kind = "error"]

\* Every provider disabled, a disabled provider preferred by the caller and
\* another by the configuration: the call has ended.
C29_Witness ==
    /\ AllDisabled
    /\ preferred_provider = "openai"
    /\ models_cfg.preferred = "ollama"
    /\ gen_pc = "done"
    /\ providers = <<>>
    /\ gen_result.kind = "error"

\* C24: with no explicit preferred provider, no configured preferred
\* provider (unset or "auto") and all providers enabled, the providers are
\* tried in the order of the docstring: openai, gemini, ollama, deepseek.
C24_DocstringOrder ==
    (/\ preferred_provider = None
     /\ models_cfg.preferred \in {None, "auto"}
     /\ \A p \in KnownProviders : models_cfg.enabled[p] # "false"
     /\ gen_pc # "call") =>
        /\ providers = DocstringOrder
        /\ \A n \in 1..Len(invocations) : invocations[n].provider = DocstringOrder[n]

\* The loop over the web records of generate_executable_tests came to its
\* end: it wrote a script for each of them.
WebLoopEnded ==
    Cardinality({n \in 1..Len(written) : written[n][1] = WEB_DIR})
        = Len(read_result.data.test_cases)

\* C23: generate_pytest_api_test returns script text for every API record
\* that carries test_id, method, url and expected_status, with or without
\* payload, expected_response and expected_keys: once the API loop of
\* generate_executable_tests is reached, the script of every such record is
\* written.
C23_OptionalFields ==
    (exec_outcome # "none" /\ read_result.kind = "data" /\ WebLoopEnded) =>
        \A i \in 1..Len(read_result.data.api_tests) :
            LET r == read_result.data.api_tests[i] IN
            (/\ \A k \in {<<"test_id">>, <<"method">>, <<"url">>, <<"expected_status">>} :
                    k \in DOMAIN r /\ r[k] # EmptyString
             /\ IsString(r[<<"test_id">>])
             /\ IsString(r[<<"method">>]))
            => ScriptPath(API_DIR, r) \in WrittenIn(API_DIR)

\* The value a step definition holds under a name: a tuple's pattern and
\* raw code by position, a dict's by key; <<>> when it has none.
Field(step_def, name) ==
    IF step_def.kind = "tuple"
    THEN CASE name = "pattern" -> step_def.items[1]
           [] name = "raw_code" -> step_def.items[2]
           [] OTHER -> <<>>
    ELSE LET at == {i \in 1..Len(step_def.items) : step_def.items[i][1] = <<name>>}
         IN  IF at = {} THEN <<>> ELSE step_def.items[CHOOSE i \in at : TRUE][2]

\* The registered definitions whose pattern matches the lower-cased text.
Matching(text) ==
    {n \in 1..Len(ALL_STEPS) :
        \E k \in 1..Len(text) : MatchesAt(Field(ALL_STEPS[n], "pattern"), text, k)}

\* C30: resolve_step with the default definitions returns the first
\* registered definition (login steps, then product steps) whose pattern
\* matches the lower-cased step text: its raw code, or its page and action;
\* it raises only when no registered pattern matches.
C30_FirstRegisteredMatch ==
    (/\ step_pc = "done"
     /\ step_definitions = ALL_STEPS
     /\ step_text.type = "str"
     /\ Strip(step_text.text) \notin {<<LS>>, <<COMMA>>, <<>>}) =>
        LET text == Strip(LowerText(step_text.text))
            first == ALL_STEPS[Min(Matching(text))]
        IN  IF Matching(text) = {} THEN resolved.kind = "raised"
            ELSE /\ resolved.kind = "resolved"
                 /\ resolved.raw_code = Field(first, "raw_code")
                 /\ resolved.page = Field(first, "page")
                 /\ resolved.action = Field(first, "action")

(***************************************************************************)
(* Claims about the adapters: SpecClient.                                   *)
(***************************************************************************)
\* C21: after a generate_with_fallback call, returned or failed, whichever
\* providers it tried, the client's configuration is what it was before the
\* call, the model name of each provider included.
C21_ConfigUnchanged ==
    gen_pc = "done" => ollama_cfg = cfg_before

\* The response generate_with_gemini got.
GeminiGot == gemini_log[Len(gemini_log)]

\* C22: generate_with_gemini fails on the statuses 401, 404 and 429 with
\* three different errors (invalid credentials, model or endpoint not found,
\* rate-limited), none of them the generic network/request failure, which is
\* what every other error status and a missing response end with; the error
\* is what generate_with_fallback records for gemini.
C22_GeminiStatuses ==
    gemini_log # <<>> =>
        /\ gemini_result.kind \in {"text", "error"}
        /\ GeminiGot.status = 401 =>
              gemini_result.label = "Gemini API key is invalid or unauthorized"
        /\ GeminiGot.status = 404 =>
              gemini_result.label = "Gemini model not found or endpoint invalid"
        /\ GeminiGot.status = 429 =>
              gemini_result.label = "Gemini quota exceeded or rate-limited"
        /\ GeminiGot.status \in {0, 400, 403, 500, 503} =>
              gemini_result.label = "Gemini generation failed: Network or request error"
        /\ GeminiGot.status # 200 =>
              /\ gemini_result.kind = "error"
              /\ \E n \in 1..Len(errors) : errors[n] = <<"gemini", gemini_result.label>>
        /\ gemini_result.kind = "text" => GeminiGot = [status |-> 200, body |-> "candidates"]

\* The rate limit answered gemini after ollama had failed, and the call
\* went on to the next provider.
C22_Witness ==
    /\ gemini_log = <<[status |-> 429, body |-> "not_json"]>>
    /\ gemini_result.label = "Gemini quota exceeded or rate-limited"
    /\ Len(errors) >= 2
    /\ errors[1][1] = "ollama"
    /\ errors[2] = <<"gemini", "Gemini quota exceeded or rate-limited">>
    /\ gen_pc = "done"
    /\ gen_result.kind = "text"

\* The steps generate_with_ollama took, by name.
Evs == [n \in 1..Len(ollama_log) |-> ollama_log[n].ev]
Steps(names) == {n \in 1..Len(ollama_log) : Evs[n] \in names}
\* The entries that resolved the model name.
Resolutions ==
    {n \in Steps({"exact", "tagged", "pulled"}) : ollama_log[n].name # <<>>}
\* generate_with_ollama has ended.
OllamaOver == ollama_pc \in {"returned", "failed", "left"}

\* The root cause each failing step is reported with.
CausesOf(ev) ==
    CASE ev = "not_installed" -> {"Ollama is not installed"}
      [] ev = "start_timeout" -> {"Ollama server failed to start"}
      [] ev = "health_timeout" -> {"Ollama server failed healthcheck"}
      [] ev = "list_failed" -> {"Ollama server is not responding"}
      [] ev = "pull_failed" -> {"Ollama model could not be pulled"}
      [] ev = "pulled" -> {"Ollama became unavailable after pull",
                           "Ollama pull completed but model still not visible"}
      [] ev = "generate" -> {"generation failed"}
      [] OTHER -> {}

\* C25: generate_with_ollama invokes the generation only after the install
\* check passed, then the server was reachable, then the health endpoint
\* answered with success, then the model name was resolved; when a stage
\* fails the generation is not invoked and the call fails with the one error
\* labelled "Ollama is not functional", which names the root cause and
\* suggests the other providers, and which generate_with_fallback records.
C25_ReadyBeforeGeneration ==
    /\ \A n \in Steps({"generate"}) :
          \E i, j, k, l \in 1..n :
              /\ i < j /\ j < k /\ k < l /\ l < n
              /\ Evs[i] = "installed"
              /\ Evs[j] \in {"running", "reachable"}
              /\ Evs[k] = "healthy"
              /\ l \in Resolutions
    /\ Cardinality(Steps({"generate"})) <= 1
    /\ (OllamaOver /\ ollama_result.kind = "error") =>
          /\ ollama_result.label = "Ollama is not functional"
          /\ ollama_result.suggests = {"openai", "deepseek", "gemini"}
          /\ ollama_result.cause \in CausesOf(Evs[Len(Evs)])
          /\ Evs[Len(Evs)] # "generate" => Steps({"generate"}) = {}
    /\ (OllamaOver /\ ollama_result.kind = "text") => Evs[Len(Evs)] = "generate"
    /\ (ollama_pc = "left" /\ ollama_result.kind = "error") =>
          /\ Calls("ollama") = 1
          /\ \E n \in 1..Len(errors) : errors[n] = <<"ollama", "Ollama is not functional">>

\* The server was down and was spawned, came up after a failed poll, was
\* healthy after a failed poll, the model was pulled and the generation
\* returned.
C25_Witness ==
    /\ ollama_pc = "returned"
    /\ Steps({"spawn"}) # {}
    /\ Steps({"poll_unreachable"}) # {}
    /\ Steps({"poll_unhealthy"}) # {}
    /\ Steps({"missing"}) # {}
    /\ Evs[Len(Evs)] = "generate"

\* The polls of the two wait loops.
ServerPolls == Steps({"reachable", "poll_unreachable"})
HealthPolls == Steps({"healthy", "poll_unhealthy"})

\* C26: the server is spawned only when the reachability check failed, and
\* at most once in a call; each of the two polling loops polls only while
\* the configured startup timeout has not elapsed and stops at its first
\* success; a loop that exceeds the timeout ends the call with a failure,
\* after which nothing is polled or spawned again.
C26_BoundedReadiness ==
    /\ Cardinality(Steps({"spawn"})) <= 1
    /\ \A n \in Steps({"spawn"}) : n > 1 /\ Evs[n - 1] = "unreachable"
    /\ Steps({"running"}) # {} => Steps({"spawn"}) = {}
    /\ \A n \in ServerPolls \cup HealthPolls :
          ollama_log[n].at < cfg_before.startup_timeout
    /\ Cardinality(Steps({"poll_unreachable"})) <= cfg_before.startup_timeout
    /\ Cardinality(Steps({"poll_unhealthy"})) <= cfg_before.startup_timeout
    /\ \A n \in Steps({"reachable"}) : \A m \in ServerPolls : m <= n
    /\ \A n \in Steps({"healthy"}) : \A m \in HealthPolls : m <= n
    /\ \A n \in Steps({"start_timeout", "health_timeout"}) :
          /\ n = Len(ollama_log)
          /\ ollama_log[n].at >= cfg_before.startup_timeout
          /\ OllamaOver
          /\ ollama_result.kind = "error"

\* The spawned server never became reachable: two polls failed and the
\* timeout of two intervals ended the call with the aggregate failure.
C26_Witness ==
    /\ cfg_before.startup_timeout = 2
    /\ Cardinality(Steps({"poll_unreachable"})) = 2
    /\ Evs[Len(Evs)] = "start_timeout"
    /\ ollama_pc = "left"
    /\ gen_pc = "done"
    /\ gen_result.kind = "error"

\* The name is the requested one followed by a tag.
TagSuffixed(name, requested) ==
    \E tag \in {"latest", "8b"} : name = Append(requested, tag)
\* The models of a list that are the requested one or tag-suffixed from it.
VisibleIn(models, requested) ==
    {i \in 1..Len(models) : models[i] = requested \/ TagSuffixed(models[i], requested)}

\* C27: ensure_model_exists returns the requested name when it is installed;
\* otherwise the first installed name that is the requested one with a tag;
\* otherwise it pulls, and returns a name equal to or tag-suffixed from the
\* requested one that is listed after the pull, failing if there is none.
\* It pulls only when neither match is installed, and every name it returns
\* is installed.
C27_ModelResolution ==
    /\ \A n \in Resolutions :
          LET e == ollama_log[n] IN
          /\ InSeq(e.name, e.models)
          /\ e.name = requested_model \/ TagSuffixed(e.name, requested_model)
          /\ InSeq(requested_model, e.models) /\ e.ev # "pulled" => e.name = requested_model
          /\ e.ev = "exact" => e.name = requested_model
          /\ e.ev = "tagged" =>
                /\ ~InSeq(requested_model, e.models)
                /\ e.name = e.models[Min(VisibleIn(e.models, requested_model))]
          /\ e.ev = "pulled" => n > 1 /\ Evs[n - 1] = "missing"
    /\ \A n \in Steps({"missing"}) : VisibleIn(ollama_log[n].models, requested_model) = {}
    /\ \A n \in Steps({"exact", "tagged"}) : Steps({"missing"}) = {}
    /\ (OllamaOver /\ ollama_result.cause =
            "Ollama pull completed but model still not visible") =>
          VisibleIn(ollama_log[Len(ollama_log)].models, requested_model) = {}

\* Two tagged models are installed and the requested name has no tag: the
\* first of them is returned.
C27_Witness ==
    /\ requested_model = <<"llama3">>
    /\ ollama_env.models = << <<"llama3", "8b">>, <<"llama3", "latest">> >>
    /\ Steps({"tagged"}) # {}
    /\ ollama_cfg.model = <<"llama3", "8b">>
====
